---- MODULE Spec2Model ----
(***************************************************************************)
(* A model of the recursive crawler (web_scraper.py), the text chunker,    *)
(* the retriever and the query expander (chat_wrapper.py).                 *)
(***************************************************************************)
EXTENDS Integers, Sequences, FiniteSets, TLC

(***************************************************************************)
(* Bounds of the model.                                                    *)
(***************************************************************************)
\* the largest max_depth a crawl is started with
MaxDepth == 2
\* the largest number of <a href> anchors on the pages of one crawl, all
\* pages together (the edges of the link graph)
MaxLinks == 4

(***************************************************************************)
(* URLs, hrefs and urllib.parse.                                           *)
(* A URL is the pair (netloc, path) that urlparse reads from it; the       *)
(* scheme is the same for all of them.  An href is an absolute URL, a      *)
(* path to be resolved against the page it stands on, or a mailto: link    *)
(* (no network location at all).                                           *)
(***************************************************************************)
Netlocs == {"example.com", "other.org"}

Paths == {"/", "/a", "/b"}

MailtoURL == [netloc |-> "", path |-> "mailto:x"]

PageURLs == [netloc : Netlocs, path : Paths]

AllURLs == PageURLs \cup {MailtoURL}

Hrefs ==
    [kind : {"rel"}, netloc : {""}, path : Paths]
    \cup [kind : {"abs"}, netloc : {"example.com"}, path : {"/a"}]
    \cup [kind : {"abs"}, netloc : {"other.org"}, path : {"/"}]
    \cup {[kind |-> "mailto", netloc |-> "", path |-> "mailto:x"]}

\* urljoin(url, href)
urljoin(url, href) ==
    CASE href.kind = "abs" -> [netloc |-> href.netloc, path |-> href.path]
      [] href.kind = "rel" -> [netloc |-> url.netloc, path |-> href.path]
      [] OTHER -> MailtoURL

\* urlparse(u).netloc
Netloc(u) == u.netloc

(***************************************************************************)
(* extract_article_content: the static fetch and what becomes of it.       *)
(* A response is what client.get gives: a status code, or an exception     *)
(* (timeout, connection error; also one raised while parsing or OCR).      *)
(***************************************************************************)
StaticResponses ==
    [raised : {FALSE}, status_code : {200, 403, 404}]
    \cup {[raised |-> TRUE, status_code |-> 0]}

\* the names the module web_scraper_js defines at top level
WebScraperJsAttrs == {"WebScraperJS"}

\* the record of a page: the keys that matter here.  Error = "" stands for a
\* record with Title, FullContent and Headings and no Error key; sub_pages
\* = << >> for a record without the key sub_pages.
PageData(url, error, rendered) ==
    [URL |-> url, Error |-> error, Rendered |-> rendered, sub_pages |-> << >>]

\* extract_article_content(url), given the response of the static fetch
extract_article_content(url, response) ==
    IF response.raised
    THEN << PageData(url, "exception", FALSE) >>
    ELSE IF response.status_code = 200
    THEN << PageData(url, "", FALSE) >>
    ELSE IF response.status_code = 403
    THEN IF "extract_article_content_js" \in WebScraperJsAttrs
         THEN << PageData(url, "", TRUE) >>
         ELSE << PageData(url, "AttributeError", FALSE) >>
    ELSE << PageData(url, "Status code", FALSE) >>

(***************************************************************************)
(* recursive_extract as a stack machine: one frame per call that is inside *)
(* its loop over the page's links.                                         *)
(***************************************************************************)
VARIABLES
    max_depth,     \* the max_depth of the crawl
    seed,          \* the url of the outermost call
    visited,       \* the visited set shared by the call tree
    stack,         \* the calls in progress, outermost first
    result,        \* << >> until the outermost call returns, then << tree >>
    crawl_pc,      \* "init", "running", "done"
    static_resp,   \* history: url -> the responses of its static fetches
    soup_of,       \* history: the urls get_soup returned a soup for
    soup_calls,    \* history: url -> the number of calls get_soup(url)
    links_of,      \* history: url -> the resolved links found on its soup
    anchors        \* history: the anchors the loops have gone through so far

\* split_text_into_chunks
VARIABLES
    text,          \* the text to split, a sequence of characters
    chunk_size,    \* the chunk budget
    final_chunks,  \* the chunks returned
    chunk_pc       \* "idle", "input", "done"

\* retrieve_relevant_context
VARIABLES
    query_embedding,  \* get_embedding(query)
    vector_store,     \* the list of [embedding, text] items
    top_k,            \* the number of chunks asked for
    retrieved,        \* the value returned
    retr_pc           \* "idle", "input", "done"

\* expand_query
VARIABLES
    query,            \* the user's query, a sequence of characters
    expanded_query,   \* the value returned
    expand_pc         \* "idle", "input", "done"

crawlVars ==
    << max_depth, seed, visited, stack, result, crawl_pc, static_resp, soup_of,
       soup_calls, links_of, anchors >>

chunkVars == << text, chunk_size, final_chunks, chunk_pc >>

retrVars == << query_embedding, vector_store, top_k, retrieved, retr_pc >>

expandVars == << query, expanded_query, expand_pc >>

\* crawl_extract_text_from_log and its worker threads
VARIABLES
    input_lines,        \* input_text.splitlines()
    url_list,           \* line 168
    futures,            \* line 171: one call process_url(url) per url
    port_queue,         \* the pool of debug ports, first in first out
    results,            \* line 169, filled in completion order
    domain_successes,   \* domain -> the entries filed under it, in order
    domain_errors,      \* domain -> the error messages filed under it
    main_pc             \* "idle", "init", "waiting", "done", "raised"

extractVars ==
    << input_lines, url_list, futures, port_queue, results, domain_successes,
       domain_errors, main_pc >>

\* ai_assisted_robots_analysis
VARIABLES
    robots_urls,          \* url_list
    site_idx,             \* the position in url_list of the site in hand
    leadership_paths,     \* line 161, of the site in hand
    site_nodes,           \* lines 171-176, of the site in hand
    already_added_urls,   \* lines 170-176, of the site in hand
    prioritized_urls,     \* line 156
    ai_analysis_text,     \* line 157: the number of analyses appended
    site_log,             \* history: per site done, what it contributed
    robots_pc             \* "idle", "discover", "model", "done"

robotsVars ==
    << robots_urls, site_idx, leadership_paths, site_nodes,
       already_added_urls, prioritized_urls, ai_analysis_text, site_log,
       robots_pc >>

\* run_chat: the session state of the chat and the call to the model
VARIABLES
    crawled_text,     \* st.session_state.crawled_text is there and not blank
    chat_history,     \* st.session_state.chat_history
    messages,         \* the messages list of the call in hand, << >> if none
    chat_pc           \* "idle", "ready", "first_call", "follow_up_call"

chatVars == << crawled_text, chat_history, messages, chat_pc >>

\* recursive_extract on a site given in advance
VARIABLES
    web,              \* page -> the links on it, resolved, in page order
    web_depth,        \* the max_depth of the call
    web_tree,         \* << >>, then << the record returned >>
    web_pc            \* "idle", "input", "done"

webVars == << web, web_depth, web_tree, web_pc >>

\* pdf_extractor.run_app: the radio, the session state and the last run
VARIABLES
    conversion_type,  \* the option of the radio
    pdf_text,         \* << >> (no such key), or << st.session_state.pdf_text >>
    pdf_chat_history, \* << >> (no such key), or << the list chat_history >>
    pdf_source,       \* history: << >>, or << how pdf_text was set last >>
    pdf_run           \* how the last run of the script went

pdfVars ==
    << conversion_type, pdf_text, pdf_chat_history, pdf_source, pdf_run >>

\* main.py and linkedin_app_wrapper.run_app: the hub's session state
VARIABLES
    mode,                 \* st.session_state.mode
    page,                 \* the page the last run of main.py has shown
    pressed,              \* history: the button that caused the last run
    query_params,         \* the query parameters of the page's address
    linkedin_configured,  \* st.session_state.linkedin_configured
    search_results,       \* "None", or the jobs found: "none", "some"
    selected_job,         \* st.session_state.selected_job is not None
    saved_searches        \* st.session_state.saved_searches, by keywords

hubVars ==
    << mode, page, pressed, query_params, linkedin_configured,
       search_results, selected_job, saved_searches >>

vars ==
    << crawlVars, chunkVars, retrVars, expandVars, extractVars, robotsVars,
       chatVars, webVars, pdfVars, hubVars >>

\* the state of the components an action does not belong to
notCrawlVars ==
    << chunkVars, retrVars, expandVars, extractVars, robotsVars, chatVars,
       webVars, pdfVars, hubVars >>

notChunkVars ==
    << crawlVars, retrVars, expandVars, extractVars, robotsVars, chatVars,
       webVars, pdfVars, hubVars >>

notRobotsVars ==
    << crawlVars, chunkVars, retrVars, expandVars, extractVars, chatVars,
       webVars, pdfVars, hubVars >>

notWebVars ==
    << crawlVars, chunkVars, retrVars, expandVars, extractVars, robotsVars,
       chatVars, pdfVars, hubVars >>

notPdfVars ==
    << crawlVars, chunkVars, retrVars, expandVars, extractVars, robotsVars,
       chatVars, webVars, hubVars >>

notHubVars ==
    << crawlVars, chunkVars, retrVars, expandVars, extractVars, robotsVars,
       chatVars, webVars, pdfVars >>

notChatVars ==
    << crawlVars, chunkVars, retrVars, expandVars, extractVars, robotsVars,
       webVars, pdfVars, hubVars >>

notExtractVars ==
    << crawlVars, chunkVars, retrVars, expandVars, robotsVars, chatVars,
       webVars, pdfVars, hubVars >>

notRetrVars ==
    << crawlVars, chunkVars, expandVars, extractVars, robotsVars, chatVars,
       webVars, pdfVars, hubVars >>

notExpandVars ==
    << crawlVars, chunkVars, retrVars, extractVars, robotsVars, chatVars,
       webVars, pdfVars, hubVars >>

SeedURLs == {[netloc |-> "example.com", path |-> "/"],
             [netloc |-> "other.org", path |-> "/"]}

CrawlInit ==
    /\ max_depth \in 0..MaxDepth
    /\ seed \in SeedURLs
    /\ visited = {}
    /\ stack = << >>
    /\ result = << >>
    /\ crawl_pc = "init"
    /\ static_resp = [u \in AllURLs |-> << >>]
    /\ soup_of = {}
    /\ soup_calls = [u \in AllURLs |-> 0]
    /\ links_of = [u \in AllURLs |-> {}]
    /\ anchors = 0
    /\ text = << >>
    /\ chunk_size = 0
    /\ final_chunks = << >>
    /\ chunk_pc = "idle"
    /\ query_embedding = << >>
    /\ vector_store = << >>
    /\ top_k = 0
    /\ retrieved = << >>
    /\ retr_pc = "idle"
    /\ query = ""
    /\ expanded_query = ""
    /\ expand_pc = "idle"
    /\ input_lines = << >>
    /\ url_list = << >>
    /\ futures = << >>
    /\ port_queue = << >>
    /\ results = << >>
    /\ domain_successes = << >>
    /\ domain_errors = << >>
    /\ main_pc = "idle"
    /\ robots_urls = << >>
    /\ site_idx = 0
    /\ leadership_paths = << >>
    /\ site_nodes = << >>
    /\ already_added_urls = {}
    /\ prioritized_urls = << >>
    /\ ai_analysis_text = 0
    /\ site_log = << >>
    /\ robots_pc = "idle"
    /\ crawled_text = FALSE
    /\ chat_history = << >>
    /\ messages = << >>
    /\ chat_pc = "idle"
    /\ web = << >>
    /\ web_depth = 0
    /\ web_tree = << >>
    /\ web_pc = "idle"
    /\ conversion_type = ""
    /\ pdf_text = << >>
    /\ pdf_chat_history = << >>
    /\ pdf_source = << >>
    /\ pdf_run = "idle"
    /\ mode = ""
    /\ page = "idle"
    /\ pressed = "none"
    /\ query_params = {}
    /\ linkedin_configured = FALSE
    /\ search_results = "None"
    /\ selected_job = FALSE
    /\ saved_searches = << >>

\* line 271: visited.add(url)
MarkVisitedFresh(vis, url) == {url}

MarkVisitedForgotten(vis, url) == vis

MarkVisited(vis, url) == vis \cup {url}

\* line 279: if current_depth < max_depth
DepthAllowsInclusive(current_depth, limit) == current_depth <= limit

DepthAllows(current_depth, limit) == current_depth < limit

\* lines 287-288: the link is followed
ShouldRecurseAnyNetloc(url, full_url, vis) == full_url \notin vis

ShouldRecurse(url, full_url, vis) ==
    /\ Netloc(full_url) = Netloc(url)
    /\ full_url \notin vis

\* lines 290-291: if sub_result: sub_pages.append(sub_result)
AppendSubResultReplace(sub_pages, sub_result) ==
    IF sub_result = << >> THEN sub_pages ELSE sub_result

AppendSubResult(sub_pages, sub_result) ==
    IF sub_result = << >> THEN sub_pages ELSE sub_pages \o sub_result

\* lines 292-294: the record a call returns
ReturnValue(page_data, sub_pages) ==
    IF sub_pages # << >> THEN [page_data EXCEPT !.sub_pages = sub_pages]
    ELSE page_data

Frame(url, current_depth, page_data) ==
    [url |-> url, current_depth |-> current_depth, page_data |-> page_data,
     sub_pages |-> << >>]

\* lines 273-277: page_data of a call
PageDataOf(url, response) ==
    LET extraction == extract_article_content(url, response)
    IN  IF extraction # << >> THEN extraction[1] ELSE PageData(url, "", FALSE)

(***************************************************************************)
(* A call recursive_extract(url, current_depth, max_depth, visited) up to  *)
(* its loop (lines 267-283).  response is the static fetch's response and  *)
(* soup whether get_soup returns a soup.  The call either returns at once  *)
(* (ret = << record >>, or << >> for None) or enters its loop (a frame).   *)
(***************************************************************************)
CallReturnsNone(url, vis) == url \in vis

CallEntersLoop(current_depth, soup) ==
    DepthAllows(current_depth, max_depth) /\ soup

\* the outermost call: recursive_extract(seed, 0, max_depth)
Start ==
    /\ crawl_pc = "init"
    /\ \E response \in StaticResponses, soup \in BOOLEAN :
        LET page_data == PageDataOf(seed, response)
            fetched == DepthAllows(0, max_depth)
        IN  /\ visited' = MarkVisited(visited, seed)
            /\ static_resp' = [static_resp EXCEPT ![seed] = Append(@, response)]
            /\ soup_of' = IF fetched /\ soup THEN soup_of \cup {seed} ELSE soup_of
            /\ soup_calls' = IF fetched
                             THEN [soup_calls EXCEPT ![seed] = @ + 1]
                             ELSE soup_calls
            /\ IF CallEntersLoop(0, soup)
               THEN /\ stack' = << Frame(seed, 0, page_data) >>
                    /\ result' = result
                    /\ crawl_pc' = "running"
               ELSE /\ stack' = stack
                    /\ result' = << ReturnValue(page_data, << >>) >>
                    /\ crawl_pc' = "done"
    /\ UNCHANGED << max_depth, seed, links_of, anchors >>
    /\ UNCHANGED notCrawlVars

Top == stack[Len(stack)]

SetTop(f) == [stack EXCEPT ![Len(stack)] = f]

\* one iteration of the loop of lines 284-291 on a link that is not followed
SkipLink ==
    /\ crawl_pc = "running"
    /\ anchors < MaxLinks
    /\ anchors' = anchors + 1
    /\ \E href \in Hrefs :
        LET full_url == urljoin(Top.url, href)
        IN  /\ ~ShouldRecurse(Top.url, full_url, visited)
            /\ stack' = stack
            /\ links_of' = [links_of EXCEPT ![Top.url] = @ \cup {full_url}]
    /\ UNCHANGED << max_depth, seed, visited, result, crawl_pc, static_resp,
                    soup_of, soup_calls >>
    /\ UNCHANGED notCrawlVars

\* one iteration of the loop on a link that is followed: the recursive call
\* of line 289, up to the callee's own loop or its return
FollowLink ==
    /\ crawl_pc = "running"
    /\ anchors < MaxLinks
    /\ anchors' = anchors + 1
    /\ \E href \in Hrefs, response \in StaticResponses, soup \in BOOLEAN :
        LET full_url == urljoin(Top.url, href)
            depth == Top.current_depth + 1
            page_data == PageDataOf(full_url, response)
            fetched == DepthAllows(depth, max_depth)
            caller == Top
        IN  /\ ShouldRecurse(Top.url, full_url, visited)
            /\ links_of' = [links_of EXCEPT ![Top.url] = @ \cup {full_url}]
            /\ IF CallReturnsNone(full_url, visited)
               THEN /\ stack' = SetTop([caller EXCEPT !.sub_pages =
                                          AppendSubResult(@, << >>)])
                    /\ UNCHANGED << visited, static_resp, soup_of, soup_calls >>
               ELSE /\ visited' = MarkVisited(visited, full_url)
                    /\ static_resp' =
                         [static_resp EXCEPT ![full_url] = Append(@, response)]
                    /\ soup_of' = IF fetched /\ soup
                                  THEN soup_of \cup {full_url} ELSE soup_of
                    /\ soup_calls' = IF fetched
                                     THEN [soup_calls EXCEPT ![full_url] = @ + 1]
                                     ELSE soup_calls
                    /\ IF CallEntersLoop(depth, soup)
                       THEN stack' = Append(SetTop(caller),
                                            Frame(full_url, depth, page_data))
                       ELSE stack' = SetTop([caller EXCEPT !.sub_pages =
                                AppendSubResult(@,
                                    << ReturnValue(page_data, << >>) >>)])
    /\ UNCHANGED << max_depth, seed, result, crawl_pc >>
    /\ UNCHANGED notCrawlVars

\* the loop of the innermost call is over: lines 292-294, and the caller's
\* lines 290-291
EndLoop ==
    /\ crawl_pc = "running"
    /\ LET ret == ReturnValue(Top.page_data, Top.sub_pages)
           rest == SubSeq(stack, 1, Len(stack) - 1)
       IN  IF Len(stack) = 1
           THEN /\ stack' = << >>
                /\ result' = << ret >>
                /\ crawl_pc' = "done"
           ELSE /\ stack' = [rest EXCEPT ![Len(rest)].sub_pages =
                                AppendSubResult(@, << ret >>)]
                /\ result' = result
                /\ crawl_pc' = crawl_pc
    /\ UNCHANGED << max_depth, seed, visited, static_resp, soup_of,
                    soup_calls, links_of, anchors >>
    /\ UNCHANGED notCrawlVars

CrawlNext == Start \/ SkipLink \/ FollowLink \/ EndLoop

SpecCrawl ==
    /\ CrawlInit
    /\ [][CrawlNext]_vars
    /\ WF_vars(CrawlNext)

(***************************************************************************)
(* The tree a crawl returns, and the tree as it stands while the crawl     *)
(* runs.                                                                   *)
(***************************************************************************)
RECURSIVE flatten_recursive_data(_, _)
RECURSIVE FlattenSubPages(_, _)
\* app_wrapper.flatten_recursive_data: one row per node, in pre-order
flatten_recursive_data(data, depth) ==
    << [URL |-> data.URL, Error |-> data.Error, Rendered |-> data.Rendered,
        Depth |-> depth, Children |-> Len(data.sub_pages)] >>
    \o FlattenSubPages(data.sub_pages, depth + 1)

FlattenSubPages(subs, depth) ==
    IF subs = << >> THEN << >>
    ELSE flatten_recursive_data(Head(subs), depth)
         \o FlattenSubPages(Tail(subs), depth)

RECURSIVE TreeOfFrames(_)
\* the record the k-th call in progress would return if every loop in
\* progress ended now
TreeOfFrames(k) ==
    LET f == stack[k]
    IN  IF k = Len(stack) THEN ReturnValue(f.page_data, f.sub_pages)
        ELSE ReturnValue(f.page_data,
                         AppendSubResult(f.sub_pages, << TreeOfFrames(k + 1) >>))

\* the rows of the tree built so far (of the returned tree, once returned)
Rows ==
    IF result # << >> THEN flatten_recursive_data(result[1], 0)
    ELSE IF stack # << >> THEN flatten_recursive_data(TreeOfFrames(1), 0)
    ELSE << >>

SameOrigin(u) == Netloc(u) = Netloc(seed)

(***************************************************************************)
(* C1: in one crawl every URL is processed at most once: no URL stands in  *)
(* two nodes of the tree (so none repeats on a root-to-leaf path), at any  *)
(* moment of the crawl and in the tree returned.                           *)
(***************************************************************************)
C1_EachUrlAtMostOnce ==
    /\ \A i, j \in 1..Len(Rows) : Rows[i].URL = Rows[j].URL => i = j
    /\ \A i, j \in 1..Len(stack) : stack[i].url = stack[j].url => i = j

\* a finished crawl of three pages in which a page links to itself and two
\* pages link to each other
C1_Witness ==
    /\ crawl_pc = "done"
    /\ Len(Rows) = 3
    /\ \E u \in visited : u \in links_of[u]
    /\ \E u, v \in visited : u # v /\ v \in links_of[u] /\ u \in links_of[v]

(***************************************************************************)
(* C2: the tree is never deeper than max_depth: every node's level is at   *)
(* most max_depth, and a node at level max_depth has no sub_pages.         *)
(***************************************************************************)
C2_DepthAtMostMaxDepth ==
    \A i \in 1..Len(Rows) :
        /\ Rows[i].Depth <= max_depth
        /\ Rows[i].Depth = max_depth => Rows[i].Children = 0

\* a returned tree with a node at level max_depth = 2, reached from a page
\* at level 1
C2_Witness ==
    /\ crawl_pc = "done"
    /\ max_depth = 2
    /\ \E i \in 1..Len(Rows) : Rows[i].Depth = 2

(***************************************************************************)
(* C3: no off-origin link is followed: every URL of the tree has the       *)
(* seed's network location, and so has every URL in the visited set.       *)
(***************************************************************************)
C3_OnlySeedAuthority ==
    /\ \A i \in 1..Len(Rows) : SameOrigin(Rows[i].URL)
    /\ \A u \in visited : SameOrigin(u)

\* a returned tree whose pages below the root carry off-origin links
C3_Witness ==
    /\ crawl_pc = "done"
    /\ Len(Rows) >= 2
    /\ \E u \in visited \ {seed} : \E v \in links_of[u] : ~SameOrigin(v)
    /\ \E v \in links_of[seed] : ~SameOrigin(v) /\ Netloc(v) # ""

SeedFetched == static_resp[seed] = << [raised |-> FALSE, status_code |-> 200] >>
                 /\ seed \in soup_of

SeedSameOriginLinks == {u \in links_of[seed] : SameOrigin(u) /\ u # seed}

C5_DepthOneChildren ==
    (crawl_pc = "done" /\ max_depth = 1 /\ SeedFetched) =>
        LET kids == result[1].sub_pages
        IN  /\ Len(kids) = Cardinality(SeedSameOriginLinks)
            /\ {kids[i].URL : i \in 1..Len(kids)} = SeedSameOriginLinks
            /\ \A i \in 1..Len(kids) : kids[i].sub_pages = << >>

\* the seed page has two same-origin links and one off-origin link
C5_Witness ==
    /\ crawl_pc = "done" /\ max_depth = 1 /\ SeedFetched
    /\ Cardinality(SeedSameOriginLinks) = 2
    /\ Cardinality(links_of[seed]) = 3
    /\ Len(result[1].sub_pages) = 2

(***************************************************************************)
(* C6: a static fetch answered 403 is followed by the rendered fetch,      *)
(* whose record is the page's record.                                      *)
(***************************************************************************)
Forbidden == [raised |-> FALSE, status_code |-> 403]

C6_RenderedFetchOn403 ==
    \A i \in 1..Len(Rows) :
        static_resp[Rows[i].URL] = << Forbidden >> =>
            /\ Rows[i].Rendered
            /\ Rows[i].Error # "AttributeError"

(***************************************************************************)
(* The nodes of the tree built so far, with their places in it.            *)
(***************************************************************************)
RECURSIVE NodesOf(_)
\* the records of a tree: the record itself and those below it
NodesOf(data) ==
    {data} \cup UNION {NodesOf(data.sub_pages[i]) : i \in 1..Len(data.sub_pages)}

TreeNodes ==
    IF result # << >> THEN NodesOf(result[1])
    ELSE IF stack # << >> THEN NodesOf(TreeOfFrames(1))
    ELSE {}

ChildURLs(data) == {data.sub_pages[i].URL : i \in 1..Len(data.sub_pages)}

\* the URLs of the nodes strictly below a node
URLsBelow(data) == {n.URL : n \in NodesOf(data) \ {data}}

\* the static fetch of extract_article_content failed
StaticFailed(response) == response.raised \/ response.status_code # 200

(***************************************************************************)
(* C17: a node whose extraction gave an error record is a leaf: it has no  *)
(* sub_pages, none of that page's links having been recursed into.         *)
(***************************************************************************)
C17_ErrorNodeIsLeaf ==
    \A n \in TreeNodes : n.Error # "" => n.sub_pages = << >>

(***************************************************************************)
(* C18: the not yet visited same-origin links of a page are all marked     *)
(* visited before the first of them is recursed into, so each of them is   *)
(* a direct child of that page: a link of a page that stands in the page's *)
(* subtree stands there as a child, never deeper, under an earlier         *)
(* sibling.                                                                *)
(***************************************************************************)
C18_LinkIsDirectChild ==
    \A n \in TreeNodes :
        \A l \in links_of[n.URL] : l \in URLsBelow(n) => l \in ChildURLs(n)

(***************************************************************************)
(* C19: a static fetch that raises or is answered with another status than *)
(* 200 is followed by the rendered fetch.                                  *)
(***************************************************************************)
C19_RenderedFetchOnStaticFailure ==
    \A n \in TreeNodes :
        \A k \in 1..Len(static_resp[n.URL]) :
            StaticFailed(static_resp[n.URL][k]) => n.Rendered

(***************************************************************************)
(* C20: the page fetches of a crawl.  A page is fetched by                 *)
(* extract_article_content (line 273) and by get_soup (line 280).          *)
(***************************************************************************)
Fetches(u) == Len(static_resp[u]) + soup_calls[u]

RECURSIVE SumFetches(_)
SumFetches(urls) ==
    IF urls = {} THEN 0
    ELSE LET u == CHOOSE x \in urls : TRUE
         IN  Fetches(u) + SumFetches(urls \ {u})

\* C20 as stated: a crawl issues at most one page fetch per URL of the
\* visited set
C20_OneFetchPerVisitedUrl == SumFetches(AllURLs) <= Cardinality(visited)

\* C20 amended: a crawl fetches only URLs of the visited set, each at most
\* once for its content and at most once for its links, so at most twice
C20_TwoFetchesPerVisitedUrl ==
    /\ \A u \in AllURLs :
        /\ Len(static_resp[u]) <= 1
        /\ soup_calls[u] <= 1
        /\ u \notin visited => Fetches(u) = 0
    /\ SumFetches(AllURLs) <= 2 * Cardinality(visited)

\* a finished crawl of three pages, two of them fetched twice
C20_Witness ==
    /\ crawl_pc = "done"
    /\ Cardinality(visited) = 3
    /\ SumFetches(AllURLs) = 5

(***************************************************************************)
(* split_text_into_chunks (chat_wrapper.py).  A text is a sequence of      *)
(* characters; positions are Python's, counted from 0.                     *)
(***************************************************************************)
\* the longest text split
MaxTextLen == 6
\* the largest chunk budget
MaxChunkSize == 3

Chars == {"a", "b", " ", "\n"}

Whitespace == {" ", "\n"}

Texts == UNION {[1..n -> Chars] : n \in 0..MaxTextLen}

Min(a, b) == IF a < b THEN a ELSE b

\* s[start:end]
Slice(s, start, end) == SubSeq(s, start + 1, end)

RECURSIVE LStrip(_)
LStrip(s) ==
    IF s # << >> /\ Head(s) \in Whitespace THEN LStrip(Tail(s)) ELSE s

RECURSIVE RStrip(_)
RStrip(s) ==
    IF s # << >> /\ s[Len(s)] \in Whitespace
    THEN RStrip(SubSeq(s, 1, Len(s) - 1)) ELSE s

\* s.strip()
Strip(s) == LStrip(RStrip(s))

RECURSIVE SplitFrom(_, _)
\* the pieces of s between the occurrences of "\n\n", found left to right;
\* piece is the piece being read
SplitFrom(s, piece) ==
    IF s = << >> THEN << piece >>
    ELSE IF Len(s) >= 2 /\ s[1] = "\n" /\ s[2] = "\n"
    THEN << piece >> \o SplitFrom(SubSeq(s, 3, Len(s)), << >>)
    ELSE SplitFrom(Tail(s), Append(piece, Head(s)))

\* text.split("\n\n")
SplitParagraphs(s) == SplitFrom(s, << >>)

\* lines 96-99: candidate
Candidate(current_chunk, para) ==
    IF current_chunk # << >> THEN current_chunk \o << "\n", "\n" >> \o para
    ELSE para

RECURSIVE Accumulate(_, _, _, _)
\* lines 95-107: the loop over the paragraphs and the last chunk
Accumulate(paragraphs, chunks, current_chunk, size) ==
    IF paragraphs = << >>
    THEN IF current_chunk # << >> THEN Append(chunks, Strip(current_chunk))
         ELSE chunks
    ELSE LET para == Head(paragraphs)
             candidate == Candidate(current_chunk, para)
         IN  IF Len(candidate) > size /\ current_chunk # << >>
             THEN Accumulate(Tail(paragraphs),
                             Append(chunks, Strip(current_chunk)), para, size)
             ELSE Accumulate(Tail(paragraphs), chunks, candidate, size)

RECURSIVE RFindNewline(_, _, _)
\* chunk.rfind("\n", start, end)
RFindNewline(chunk, start, end) ==
    IF end <= start THEN -1
    ELSE IF chunk[end] = "\n" THEN end - 1
    ELSE RFindNewline(chunk, start, end - 1)

\* lines 117-121: where the piece that starts at start ends
CutEnd(chunk, start, size) ==
    LET end == Min(start + size, Len(chunk))
        newline_idx == RFindNewline(chunk, start, end)
    IN  IF end < Len(chunk) /\ newline_idx # -1 /\ newline_idx > start
        THEN newline_idx ELSE end

\* line 123: start = end
NextStartSkipsOne(end) == end + 1

NextStart(end) == end

RECURSIVE HardSplit(_, _, _)
\* lines 114-123: the pieces of a chunk longer than the budget
HardSplit(chunk, start, size) ==
    IF start < Len(chunk)
    THEN LET end == CutEnd(chunk, start, size)
         IN  << Strip(Slice(chunk, start, end)) >>
             \o HardSplit(chunk, NextStart(end), size)
    ELSE << >>

\* lines 111-123: one chunk of the first pass, in the budget
FitChunkUnsplit(chunk, size) == << chunk >>

FitChunk(chunk, size) ==
    IF Len(chunk) <= size THEN << chunk >> ELSE HardSplit(chunk, 0, size)

RECURSIVE FitAll(_, _)
\* lines 109-123: the second pass
FitAll(chunks, size) ==
    IF chunks = << >> THEN << >>
    ELSE FitChunk(Head(chunks), size) \o FitAll(Tail(chunks), size)

\* the chunks of the first pass (lines 92-107)
FirstPass(s, size) == Accumulate(SplitParagraphs(s), << >>, << >>, size)

split_text_into_chunks(s, size) == FitAll(FirstPass(s, size), size)

ChunkInit ==
    /\ text \in Texts
    /\ chunk_size \in 1..MaxChunkSize
    /\ final_chunks = << >>
    /\ chunk_pc = "input"
    /\ max_depth = 0
    /\ seed = [netloc |-> "", path |-> ""]
    /\ visited = {}
    /\ stack = << >>
    /\ result = << >>
    /\ crawl_pc = "idle"
    /\ static_resp = << >>
    /\ soup_of = {}
    /\ soup_calls = << >>
    /\ links_of = << >>
    /\ anchors = 0
    /\ query_embedding = << >>
    /\ vector_store = << >>
    /\ top_k = 0
    /\ retrieved = << >>
    /\ retr_pc = "idle"
    /\ query = ""
    /\ expanded_query = ""
    /\ expand_pc = "idle"
    /\ input_lines = << >>
    /\ url_list = << >>
    /\ futures = << >>
    /\ port_queue = << >>
    /\ results = << >>
    /\ domain_successes = << >>
    /\ domain_errors = << >>
    /\ main_pc = "idle"
    /\ robots_urls = << >>
    /\ site_idx = 0
    /\ leadership_paths = << >>
    /\ site_nodes = << >>
    /\ already_added_urls = {}
    /\ prioritized_urls = << >>
    /\ ai_analysis_text = 0
    /\ site_log = << >>
    /\ robots_pc = "idle"
    /\ crawled_text = FALSE
    /\ chat_history = << >>
    /\ messages = << >>
    /\ chat_pc = "idle"
    /\ web = << >>
    /\ web_depth = 0
    /\ web_tree = << >>
    /\ web_pc = "idle"
    /\ conversion_type = ""
    /\ pdf_text = << >>
    /\ pdf_chat_history = << >>
    /\ pdf_source = << >>
    /\ pdf_run = "idle"
    /\ mode = ""
    /\ page = "idle"
    /\ pressed = "none"
    /\ query_params = {}
    /\ linkedin_configured = FALSE
    /\ search_results = "None"
    /\ selected_job = FALSE
    /\ saved_searches = << >>

SplitText ==
    /\ chunk_pc = "input"
    /\ final_chunks' = split_text_into_chunks(text, chunk_size)
    /\ chunk_pc' = "done"
    /\ UNCHANGED << text, chunk_size >>
    /\ UNCHANGED notChunkVars

ChunkNext == SplitText

SpecChunk ==
    /\ ChunkInit
    /\ [][ChunkNext]_vars

RECURSIVE Concat(_)
\* the chunks one after the other
Concat(chunks) ==
    IF chunks = << >> THEN << >> ELSE Head(chunks) \o Concat(Tail(chunks))

RECURSIVE NonWhitespace(_)
\* s without its whitespace characters
NonWhitespace(s) ==
    IF s = << >> THEN << >>
    ELSE IF Head(s) \in Whitespace THEN NonWhitespace(Tail(s))
    ELSE << Head(s) >> \o NonWhitespace(Tail(s))

RECURSIVE IsSubsequence(_, _)
\* s is t with some characters left out
IsSubsequence(s, t) ==
    IF s = << >> THEN TRUE
    ELSE IF t = << >> THEN FALSE
    ELSE IF Head(s) = Head(t) THEN IsSubsequence(Tail(s), Tail(t))
    ELSE IsSubsequence(s, Tail(t))

(***************************************************************************)
(* C7 as stated: the chunks, concatenated in order, are the text.          *)
(***************************************************************************)
C7_Lossless ==
    chunk_pc = "done" => Concat(final_chunks) = text

(***************************************************************************)
(* C7 amended: the chunks, concatenated in order, are the text with some   *)
(* whitespace left out (the paragraph separators between chunks and the    *)
(* whitespace at the ends of chunks): no other character is lost, added    *)
(* or moved.                                                               *)
(***************************************************************************)
C7_LosslessUpToWhitespace ==
    chunk_pc = "done" =>
        /\ NonWhitespace(Concat(final_chunks)) = NonWhitespace(text)
        /\ IsSubsequence(Concat(final_chunks), text)

\* a text of two paragraphs, split into more than two chunks by the second
\* pass, with whitespace lost
C7_Witness ==
    /\ chunk_pc = "done"
    /\ Len(SplitParagraphs(text)) = 2
    /\ Len(final_chunks) >= 3
    /\ Len(NonWhitespace(text)) >= 4
    /\ Concat(final_chunks) # text

\* a run without a newline: the longest stretch of s free of "\n"
HasRunLongerThan(s, size) ==
    \E i \in 1..Len(s) :
        /\ i + size <= Len(s)
        /\ \A j \in i..(i + size) : s[j] # "\n"

(***************************************************************************)
(* C28: split_text_into_chunks returns no empty chunk: whatever the text   *)
(* and the budget (1 at least), every chunk returned has a character.      *)
(***************************************************************************)
C28_NoEmptyChunk ==
    chunk_pc = "done" =>
        \A i \in 1..Len(final_chunks) : final_chunks[i] # << >>

(***************************************************************************)
(* C8: no chunk is longer than the budget, unless the text has a run       *)
(* without a newline that is itself longer than the budget.                *)
(***************************************************************************)
C8_ChunkWithinBudget ==
    chunk_pc = "done" =>
        \A i \in 1..Len(final_chunks) :
            \/ Len(final_chunks[i]) <= chunk_size
            \/ HasRunLongerThan(text, chunk_size)

\* a chunk of the first pass that was over the budget and was cut at a
\* newline, in a text all of whose runs fit the budget
C8_Witness ==
    /\ chunk_pc = "done"
    /\ ~HasRunLongerThan(text, chunk_size)
    /\ \E i \in 1..Len(FirstPass(text, chunk_size)) :
          LET chunk == FirstPass(text, chunk_size)[i]
          IN  /\ Len(chunk) > chunk_size
              /\ CutEnd(chunk, 0, chunk_size) < chunk_size
    /\ Len(final_chunks) >= 2

(***************************************************************************)
(* retrieve_relevant_context (chat_wrapper.py).  An embedding is a vector  *)
(* of two integers, none the zero vector.  The cosine of two vectors is    *)
(* the fraction dot / (norm * norm); the model never computes its floating *)
(* point value but compares cosines exactly, by their numerators and       *)
(* squared denominators (the 1e-10 of line 143 is left out).               *)
(***************************************************************************)
\* the longest vector store
MaxStore == 3
\* the largest top_k
MaxTopK == 2

\* similarity_threshold = 0.3, in tenths
SimilarityThresholdTenths == 3

Embeddings == {<< 1, 0 >>, << 0, 1 >>, << 1, 1 >>, << -1, 1 >>}

QueryEmbeddings == {<< 1, 1 >>, << 1, 0 >>}

ChunkTexts == {"chunk one", "chunk two"}

StoreItems == [embedding : Embeddings, text : ChunkTexts]

VectorStores == UNION {[1..n -> StoreItems] : n \in 0..MaxStore}

Dot(v, w) == v[1] * w[1] + v[2] * w[2]

\* cosine_similarity(vec1, vec2) as the pair (np.dot, squared norm of
\* vec2); the norm of vec1, the query's, is the same in every score
cosine_similarity(vec1, vec2) ==
    [dot |-> Dot(vec1, vec2), norm2 |-> Dot(vec2, vec2)]

\* score x >= score y, as numbers
ScoreGE(x, y) ==
    IF x.dot >= 0 /\ y.dot < 0 THEN TRUE
    ELSE IF x.dot < 0 /\ y.dot >= 0 THEN FALSE
    ELSE IF x.dot >= 0
    THEN x.dot * x.dot * y.norm2 >= y.dot * y.dot * x.norm2
    ELSE x.dot * x.dot * y.norm2 <= y.dot * y.dot * x.norm2

ScoreEq(x, y) == ScoreGE(x, y) /\ ScoreGE(y, x)

\* line 179: score >= similarity_threshold, the threshold in tenths
AtLeastThreshold(score, vec1, tenths) ==
    /\ score.dot >= 0
    /\ 100 * score.dot * score.dot
         >= tenths * tenths * Dot(vec1, vec1) * score.norm2

RECURSIVE ScoreAll(_, _)
\* lines 169-173: scored_chunks
ScoreAll(q, store) ==
    IF store = << >> THEN << >>
    ELSE << [score |-> cosine_similarity(q, Head(store).embedding),
             text |-> Head(store).text] >>
         \o ScoreAll(q, Tail(store))

RECURSIVE InsertByScore(_, _)
\* x put into a list in descending order of score, after every element
\* whose score is at least x's
InsertByScore(sorted, x) ==
    IF sorted = << >> THEN << x >>
    ELSE IF ScoreGE(Head(sorted).score, x.score)
    THEN << Head(sorted) >> \o InsertByScore(Tail(sorted), x)
    ELSE << x >> \o sorted

RECURSIVE StableSortDesc(_, _)
StableSortDesc(sorted, rest) ==
    IF rest = << >> THEN sorted
    ELSE StableSortDesc(InsertByScore(sorted, Head(rest)), Tail(rest))

\* line 176: scored_chunks.sort(key=lambda x: x[0], reverse=True), a
\* stable sort: elements of equal score keep their order
SortByScoreForgotten(scored) == scored

SortByScore(scored) == StableSortDesc(<< >>, scored)

\* line 179: filtered_chunks
FilterByThreshold(scored, q, tenths) ==
    SelectSeq(scored, LAMBDA c : AtLeastThreshold(c.score, q, tenths))

\* line 182: top_chunks
TopChunks(filtered, k) ==
    [i \in 1..Min(k, Len(filtered)) |-> filtered[i].text]

RECURSIVE JoinLines(_)
\* "\n".join(top_chunks), as the list of its pieces
JoinLines(chunks) ==
    IF chunks = << >> THEN << >>
    ELSE IF Len(chunks) = 1 THEN chunks
    ELSE << Head(chunks), "\n" >> \o JoinLines(Tail(chunks))

\* the chunks selected (line 182)
SelectTopChunks(q, store, k, tenths) ==
    TopChunks(FilterByThreshold(SortByScore(ScoreAll(q, store)), q, tenths), k)

retrieve_relevant_context(q, store, k, tenths) ==
    JoinLines(SelectTopChunks(q, store, k, tenths))

RetrInit ==
    /\ query_embedding \in QueryEmbeddings
    /\ vector_store \in VectorStores
    /\ top_k \in 1..MaxTopK
    /\ retrieved = << >>
    /\ retr_pc = "input"
    /\ max_depth = 0
    /\ seed = [netloc |-> "", path |-> ""]
    /\ visited = {}
    /\ stack = << >>
    /\ result = << >>
    /\ crawl_pc = "idle"
    /\ static_resp = << >>
    /\ soup_of = {}
    /\ soup_calls = << >>
    /\ links_of = << >>
    /\ anchors = 0
    /\ text = << >>
    /\ chunk_size = 0
    /\ final_chunks = << >>
    /\ chunk_pc = "idle"
    /\ query = ""
    /\ expanded_query = ""
    /\ expand_pc = "idle"
    /\ input_lines = << >>
    /\ url_list = << >>
    /\ futures = << >>
    /\ port_queue = << >>
    /\ results = << >>
    /\ domain_successes = << >>
    /\ domain_errors = << >>
    /\ main_pc = "idle"
    /\ robots_urls = << >>
    /\ site_idx = 0
    /\ leadership_paths = << >>
    /\ site_nodes = << >>
    /\ already_added_urls = {}
    /\ prioritized_urls = << >>
    /\ ai_analysis_text = 0
    /\ site_log = << >>
    /\ robots_pc = "idle"
    /\ crawled_text = FALSE
    /\ chat_history = << >>
    /\ messages = << >>
    /\ chat_pc = "idle"
    /\ web = << >>
    /\ web_depth = 0
    /\ web_tree = << >>
    /\ web_pc = "idle"
    /\ conversion_type = ""
    /\ pdf_text = << >>
    /\ pdf_chat_history = << >>
    /\ pdf_source = << >>
    /\ pdf_run = "idle"
    /\ mode = ""
    /\ page = "idle"
    /\ pressed = "none"
    /\ query_params = {}
    /\ linkedin_configured = FALSE
    /\ search_results = "None"
    /\ selected_job = FALSE
    /\ saved_searches = << >>

Retrieve ==
    /\ retr_pc = "input"
    /\ retrieved' = retrieve_relevant_context(query_embedding, vector_store,
                                              top_k, SimilarityThresholdTenths)
    /\ retr_pc' = "done"
    /\ UNCHANGED << query_embedding, vector_store, top_k >>
    /\ UNCHANGED notRetrVars

RetrNext == Retrieve

SpecRetr ==
    /\ RetrInit
    /\ [][RetrNext]_vars

\* the vector stores with the same items in another order
Reorderings(store) ==
    {[i \in 1..Len(store) |-> store[p[i]]] : p \in Permutations(1..Len(store))}

Range(s) == {s[i] : i \in 1..Len(s)}

ScoreOf(item) == cosine_similarity(query_embedding, item.embedding)

(***************************************************************************)
(* C9 as stated: for every order of the vector store the same chunks are   *)
(* selected (as a set), equal scores included.                             *)
(***************************************************************************)
C9_OrderIndependent ==
    retr_pc = "done" =>
        \A other \in Reorderings(vector_store) :
            Range(SelectTopChunks(query_embedding, other, top_k,
                                  SimilarityThresholdTenths))
            = Range(SelectTopChunks(query_embedding, vector_store, top_k,
                                    SimilarityThresholdTenths))

(***************************************************************************)
(* C9 amended: when no two chunks of different text have equal similarity  *)
(* scores, the value returned is the same, chunk for chunk and in the same *)
(* order, for every order of the vector store.                             *)
(***************************************************************************)
NoTiesBetweenDifferentChunks ==
    \A i, j \in 1..Len(vector_store) :
        ScoreEq(ScoreOf(vector_store[i]), ScoreOf(vector_store[j]))
            => vector_store[i].text = vector_store[j].text

C9_OrderIndependentWithoutTies ==
    (retr_pc = "done" /\ NoTiesBetweenDifferentChunks) =>
        \A other \in Reorderings(vector_store) :
            retrieve_relevant_context(query_embedding, other, top_k,
                                      SimilarityThresholdTenths) = retrieved

\* a store of three chunks of three different scores, not in descending
\* order, of which two pass the threshold and one is returned
C9_Witness ==
    /\ retr_pc = "done"
    /\ NoTiesBetweenDifferentChunks
    /\ Len(vector_store) = 3
    /\ \A i, j \in 1..3 :
          i # j => ~ScoreEq(ScoreOf(vector_store[i]), ScoreOf(vector_store[j]))
    /\ ~ScoreGE(ScoreOf(vector_store[1]), ScoreOf(vector_store[2]))
    /\ Len(FilterByThreshold(ScoreAll(query_embedding, vector_store),
                             query_embedding, SimilarityThresholdTenths)) = 2
    /\ top_k = 1
    /\ Len(retrieved) = 1

(***************************************************************************)
(* expand_query (chat_wrapper.py).  Strings are strings, so that           *)
(* str.lower() and the substring test "x in y" are what they are in        *)
(* Python.                                                                 *)
(***************************************************************************)
\* the largest number of words in a query
MaxWords == 2

\* ACRONYM_SINGLE_MAP, in the order of the dict (lines 22-30)
ACRONYM_SINGLE_MAP ==
    << [acronym |-> "CEO", full_title |-> "Chief Executive Officer"],
       [acronym |-> "CFO", full_title |-> "Chief Financial Officer"],
       [acronym |-> "COO", full_title |-> "Chief Operating Officer"],
       [acronym |-> "CTO", full_title |-> "Chief Technology Officer"],
       [acronym |-> "CMO", full_title |-> "Chief Marketing Officer"],
       [acronym |-> "CIO", full_title |-> "Chief Information Officer"],
       [acronym |-> "CHRO", full_title |-> "Chief Human Resources Officer"] >>

\* ACRONYM_AMBIGUOUS_MAP, in the order of the dict (lines 34-48)
ACRONYM_AMBIGUOUS_MAP ==
    << [acronym |-> "CDO",
        expansions |->
          << [title |-> "Chief Data Officer",
              hint_words |->
                << "data", "analytics", "big data", "etl", "database" >>],
             [title |-> "Chief Diversity Officer",
              hint_words |-> << "diversity", "inclusion", "dei" >>] >>],
       [acronym |-> "CSO",
        expansions |->
          << [title |-> "Chief Strategy Officer",
              hint_words |->
                << "strategy", "strategic", "vision", "business plan" >>],
             [title |-> "Chief Security Officer",
              hint_words |->
                << "security", "risk", "cyber", "compliance" >>],
             [title |-> "Chief Sustainability Officer",
              hint_words |->
                << "sustainability", "environment", "green", "CSR",
                   "corporate social responsibility" >>] >>],
       [acronym |-> "CRO",
        expansions |->
          << [title |-> "Chief Revenue Officer",
              hint_words |->
                << "revenue", "sales", "growth", "pricing", "market share",
                   "monetization" >>],
             [title |-> "Chief Risk Officer",
              hint_words |->
                << "risk", "compliance", "mitigation", "assurance",
                   "regulatory", "governance" >>] >>] >>

UpperCase == << "A", "B", "C", "D", "E", "F", "G", "H", "I", "J", "K", "L", "M",
                "N", "O", "P", "Q", "R", "S", "T", "U", "V", "W", "X", "Y", "Z" >>

LowerCase == << "a", "b", "c", "d", "e", "f", "g", "h", "i", "j", "k", "l", "m",
                "n", "o", "p", "q", "r", "s", "t", "u", "v", "w", "x", "y", "z" >>

\* c.lower() of one character
LowerChar(c) ==
    IF \E i \in 1..26 : UpperCase[i] = c
    THEN LowerCase[CHOOSE i \in 1..26 : UpperCase[i] = c]
    ELSE c

RECURSIVE Lower(_)
\* s.lower()
Lower(s) ==
    IF s = "" THEN ""
    ELSE LowerChar(SubSeq(s, 1, 1)) \o Lower(SubSeq(s, 2, Len(s)))

\* x in y, of two strings
In(x, y) ==
    \E i \in 1..(Len(y) - Len(x) + 1) : SubSeq(y, i, i + Len(x) - 1) = x

RECURSIVE ExpandSingle(_, _, _)
\* lines 54-60: the loop over ACRONYM_SINGLE_MAP
ExpandSingle(entries, lower_query, expanded) ==
    IF entries = << >> THEN expanded
    ELSE LET acronym == Head(entries).acronym
             full_title == Head(entries).full_title
             first == IF In(Lower(acronym), lower_query)
                         /\ ~In(Lower(full_title), lower_query)
                      THEN expanded \o " " \o full_title ELSE expanded
             second == IF In(Lower(full_title), lower_query)
                          /\ ~In(Lower(acronym), lower_query)
                       THEN first \o " " \o acronym ELSE first
         IN  ExpandSingle(Tail(entries), lower_query, second)

\* line 69: any(hint in lower_query for hint in hint_words)
AnyHint(hint_words, lower_query) ==
    \E i \in 1..Len(hint_words) : In(hint_words[i], lower_query)

\* lines 66-70: matched_expansions
MatchedExpansions(expansions, lower_query) ==
    SelectSeq(expansions, LAMBDA e : AnyHint(e.hint_words, lower_query))

RECURSIVE AppendTitles(_, _, _)
\* lines 73-75 and 78-80: the titles not yet in the query are appended
AppendTitles(expansions, lower_query, expanded) ==
    IF expansions = << >> THEN expanded
    ELSE AppendTitles(Tail(expansions), lower_query,
            IF ~In(Lower(Head(expansions).title), lower_query)
            THEN expanded \o " " \o Head(expansions).title ELSE expanded)

RECURSIVE AppendAcronyms(_, _, _, _)
\* lines 83-85: the acronym is appended once per title spelled out
AppendAcronyms(expansions, acronym, lower_query, expanded) ==
    IF expansions = << >> THEN expanded
    ELSE AppendAcronyms(Tail(expansions), acronym, lower_query,
            IF In(Lower(Head(expansions).title), lower_query)
                 /\ ~In(Lower(acronym), lower_query)
            THEN expanded \o " " \o acronym ELSE expanded)

RECURSIVE ExpandAmbiguous(_, _, _)
\* lines 63-85: the loop over ACRONYM_AMBIGUOUS_MAP
ExpandAmbiguous(entries, lower_query, expanded) ==
    IF entries = << >> THEN expanded
    ELSE LET acronym == Head(entries).acronym
             expansions == Head(entries).expansions
             matched == MatchedExpansions(expansions, lower_query)
         IN  ExpandAmbiguous(Tail(entries), lower_query,
                IF In(Lower(acronym), lower_query)
                THEN IF matched # << >>
                     THEN AppendTitles(matched, lower_query, expanded)
                     ELSE AppendTitles(expansions, lower_query, expanded)
                ELSE AppendAcronyms(expansions, acronym, lower_query, expanded))

expand_query(q) ==
    ExpandAmbiguous(ACRONYM_AMBIGUOUS_MAP, Lower(q),
                    ExpandSingle(ACRONYM_SINGLE_MAP, Lower(q), q))

\* the words a query of the model is made of
Vocabulary ==
    {"CDO", "CSO", "cro", "CSR", "data", "Risk", "green", "CEO", "who is the"}

RECURSIVE JoinWords(_)
JoinWords(words) ==
    IF words = << >> THEN ""
    ELSE IF Len(words) = 1 THEN words[1]
    ELSE Head(words) \o " " \o JoinWords(Tail(words))

Queries ==
    {JoinWords(words) : words \in UNION {[1..n -> Vocabulary] : n \in 0..MaxWords}}

ExpandInit ==
    /\ query \in Queries
    /\ expanded_query = ""
    /\ expand_pc = "input"
    /\ max_depth = 0
    /\ seed = [netloc |-> "", path |-> ""]
    /\ visited = {}
    /\ stack = << >>
    /\ result = << >>
    /\ crawl_pc = "idle"
    /\ static_resp = << >>
    /\ soup_of = {}
    /\ soup_calls = << >>
    /\ links_of = << >>
    /\ anchors = 0
    /\ text = << >>
    /\ chunk_size = 0
    /\ final_chunks = << >>
    /\ chunk_pc = "idle"
    /\ query_embedding = << >>
    /\ vector_store = << >>
    /\ top_k = 0
    /\ retrieved = << >>
    /\ retr_pc = "idle"
    /\ input_lines = << >>
    /\ url_list = << >>
    /\ futures = << >>
    /\ port_queue = << >>
    /\ results = << >>
    /\ domain_successes = << >>
    /\ domain_errors = << >>
    /\ main_pc = "idle"
    /\ robots_urls = << >>
    /\ site_idx = 0
    /\ leadership_paths = << >>
    /\ site_nodes = << >>
    /\ already_added_urls = {}
    /\ prioritized_urls = << >>
    /\ ai_analysis_text = 0
    /\ site_log = << >>
    /\ robots_pc = "idle"
    /\ crawled_text = FALSE
    /\ chat_history = << >>
    /\ messages = << >>
    /\ chat_pc = "idle"
    /\ web = << >>
    /\ web_depth = 0
    /\ web_tree = << >>
    /\ web_pc = "idle"
    /\ conversion_type = ""
    /\ pdf_text = << >>
    /\ pdf_chat_history = << >>
    /\ pdf_source = << >>
    /\ pdf_run = "idle"
    /\ mode = ""
    /\ page = "idle"
    /\ pressed = "none"
    /\ query_params = {}
    /\ linkedin_configured = FALSE
    /\ search_results = "None"
    /\ selected_job = FALSE
    /\ saved_searches = << >>

ExpandQuery ==
    /\ expand_pc = "input"
    /\ expanded_query' = expand_query(query)
    /\ expand_pc' = "done"
    /\ UNCHANGED query
    /\ UNCHANGED notExpandVars

ExpandNext == ExpandQuery

SpecExpand ==
    /\ ExpandInit
    /\ [][ExpandNext]_vars

\* what expand_query put after the query
Appended == SubSeq(expanded_query, Len(query) + 1, Len(expanded_query))

\* the word occurs in the query, in whatever case
Occurs(word) == In(Lower(word), Lower(query))

Titles(entry) ==
    {entry.expansions[i].title : i \in 1..Len(entry.expansions)}

\* the titles of the entry one of whose hint words occurs in the query
HintedTitles(entry) ==
    {entry.expansions[i].title : i \in
        {j \in 1..Len(entry.expansions) :
            \E h \in 1..Len(entry.expansions[j].hint_words) :
                Occurs(entry.expansions[j].hint_words[h])}}

AppendedTitles(entry) ==
    {t \in Titles(entry) : In(" " \o t, Appended)}

(***************************************************************************)
(* C10: for a query with an ambiguous acronym, every title of the acronym  *)
(* is appended when no hint word of any of its meanings occurs in the      *)
(* query, and otherwise exactly the titles whose hint words occur; the     *)
(* query "CDO" gets both of its titles.                                    *)
(***************************************************************************)
C10_AmbiguousExpansion ==
    expand_pc = "done" =>
        /\ \A k \in 1..Len(ACRONYM_AMBIGUOUS_MAP) :
              LET entry == ACRONYM_AMBIGUOUS_MAP[k]
              IN  Occurs(entry.acronym) =>
                    AppendedTitles(entry) =
                        IF HintedTitles(entry) = {} THEN Titles(entry)
                        ELSE HintedTitles(entry)
        /\ query = "CDO" =>
              /\ In("Chief Data Officer", expanded_query)
              /\ In("Chief Diversity Officer", expanded_query)

(***************************************************************************)
(* crawl_extractor.py: the port pool, extract_text_from_url, process_url   *)
(* and crawl_extract_text_from_log.                                        *)
(***************************************************************************)
\* the longest list of input lines
MaxLines == 2

\* the number of ports of the pool (1001 in the code): small, so that the
\* pool can run empty
MaxPorts == 2

\* line 23
PORT_RANGE_START == 9222
\* line 24, for a pool of MaxPorts ports
PORT_RANGE_END == PORT_RANGE_START + MaxPorts - 1

Ports == PORT_RANGE_START..PORT_RANGE_END

\* lines 25-27: the pool after the module is loaded
RECURSIVE PortsFrom(_)
PortsFrom(p) ==
    IF p > PORT_RANGE_END THEN << >> ELSE << p >> \o PortsFrom(p + 1)

\* line 56: the fallback starts when the text is shorter than this
MinStaticTextLen == 100

\* the lines of input_text
InputLines == {"https://a.com/x", "a.com/doc.pdf", " https://b.org/ ", "[", " "}

Inputs == UNION {[1..n -> InputLines] : n \in 0..MaxLines}

CharAt(s, i) == SubSeq(s, i, i)

RECURSIVE LStripStr(_)
LStripStr(s) ==
    IF Len(s) > 0 /\ CharAt(s, 1) \in Whitespace
    THEN LStripStr(SubSeq(s, 2, Len(s))) ELSE s

RECURSIVE RStripStr(_)
RStripStr(s) ==
    IF Len(s) > 0 /\ CharAt(s, Len(s)) \in Whitespace
    THEN RStripStr(SubSeq(s, 1, Len(s) - 1)) ELSE s

\* line.strip()
StripStr(s) == LStripStr(RStripStr(s))

RECURSIVE StripLines(_)
\* line 168: the stripped lines that are not blank
StripLines(lines) ==
    IF lines = << >> THEN << >>
    ELSE LET line == StripStr(Head(lines))
         IN  (IF line # "" THEN << line >> ELSE << >>)
             \o StripLines(Tail(lines))

RECURSIVE Find(_, _, _)
\* the first position from i on (counted from 1) of a character of cs in
\* s, 0 if there is none
Find(s, cs, i) ==
    IF i > Len(s) THEN 0
    ELSE IF CharAt(s, i) \in cs THEN i
    ELSE Find(s, cs, i + 1)

Letters == Range(LowerCase) \cup Range(UpperCase)

SchemeChars ==
    Letters \cup {"0", "1", "2", "3", "4", "5", "6", "7", "8", "9", "+", "-", "."}

\* urllib.parse.urlparse(url): the scheme and the netloc, or the ValueError
\* "Invalid IPv6 URL" (ok = FALSE)
urlparse(url) ==
    LET colon == Find(url, {":"}, 1)
        has_scheme ==
            /\ colon > 1
            /\ CharAt(url, 1) \in Letters
            /\ \A k \in 1..(colon - 1) : CharAt(url, k) \in SchemeChars
        scheme == IF has_scheme THEN Lower(SubSeq(url, 1, colon - 1)) ELSE ""
        rest == IF has_scheme THEN SubSeq(url, colon + 1, Len(url)) ELSE url
        has_netloc == Len(rest) >= 2 /\ SubSeq(rest, 1, 2) = "//"
        delim == Find(rest, {"/", "?", "#"}, 3)
        netloc == IF ~has_netloc THEN ""
                  ELSE IF delim = 0 THEN SubSeq(rest, 3, Len(rest))
                  ELSE SubSeq(rest, 3, delim - 1)
        open == Find(netloc, {"["}, 1) > 0
        close == Find(netloc, {"]"}, 1) > 0
    IN  [ok |-> open = close, scheme |-> scheme, netloc |-> netloc]

\* s.endswith(suffix)
EndsWith(s, suffix) ==
    /\ Len(s) >= Len(suffix)
    /\ SubSeq(s, Len(s) - Len(suffix) + 1, Len(s)) = suffix

\* line 99
IsPdfUrl(url) == EndsWith(Lower(url), ".pdf")

\* the outcomes of the static fetch (lines 41-53), with len(extracted_text)
\* after it
StaticOutcomes ==
    [kind : {"raised"}, len : {99, 100}]
    \cup [kind : {"status"}, len : {0}]
    \cup [kind : {"ok"}, len : {99, 100}]

\* the outcomes of the fallback (lines 57-96): webdriver.Chrome raises,
\* driver.quit raises, nothing raises
BrowserOutcomes == {"launch_raises", "quit_raises", "ok"}

PdfOutcomes == {"raises", "ok"}

\* the outcomes of lines 109-135: the second fetch raises, the page has no
\* image of its own domain, an image is read, an image download raises
OcrOutcomes == {"refetch_raises", "no_images", "image_ok", "image_raises"}

\* a call process_url(url) that has not begun
Future(url) ==
    [url |-> url, pc |-> "pending", domain |-> "", extracted_text |-> << >>,
     soup |-> FALSE, remote_port |-> 0, static |-> << >>, failed |-> {}]

\* lines 145-146
Normalise(url) == IF urlparse(url).scheme = "" THEN "https://" \o url ELSE url

\* the domains dictionaries can have as keys
Domains == {urlparse(Normalise(StripStr(l))).netloc : l \in InputLines}

ExtractInit ==
    /\ input_lines \in Inputs
    /\ url_list = << >>
    /\ futures = << >>
    /\ port_queue = PortsFrom(PORT_RANGE_START)
    /\ results = << >>
    /\ domain_successes = [d \in Domains |-> << >>]
    /\ domain_errors = [d \in Domains |-> << >>]
    /\ main_pc = "init"
    /\ max_depth = 0
    /\ seed = [netloc |-> "", path |-> ""]
    /\ visited = {}
    /\ stack = << >>
    /\ result = << >>
    /\ crawl_pc = "idle"
    /\ static_resp = << >>
    /\ soup_of = {}
    /\ soup_calls = << >>
    /\ links_of = << >>
    /\ anchors = 0
    /\ text = << >>
    /\ chunk_size = 0
    /\ final_chunks = << >>
    /\ chunk_pc = "idle"
    /\ query_embedding = << >>
    /\ vector_store = << >>
    /\ top_k = 0
    /\ retrieved = << >>
    /\ retr_pc = "idle"
    /\ query = ""
    /\ expanded_query = ""
    /\ expand_pc = "idle"
    /\ robots_urls = << >>
    /\ site_idx = 0
    /\ leadership_paths = << >>
    /\ site_nodes = << >>
    /\ already_added_urls = {}
    /\ prioritized_urls = << >>
    /\ ai_analysis_text = 0
    /\ site_log = << >>
    /\ robots_pc = "idle"
    /\ crawled_text = FALSE
    /\ chat_history = << >>
    /\ messages = << >>
    /\ chat_pc = "idle"
    /\ web = << >>
    /\ web_depth = 0
    /\ web_tree = << >>
    /\ web_pc = "idle"
    /\ conversion_type = ""
    /\ pdf_text = << >>
    /\ pdf_chat_history = << >>
    /\ pdf_source = << >>
    /\ pdf_run = "idle"
    /\ mode = ""
    /\ page = "idle"
    /\ pressed = "none"
    /\ query_params = {}
    /\ linkedin_configured = FALSE
    /\ search_results = "None"
    /\ selected_job = FALSE
    /\ saved_searches = << >>

\* a variant with one call for each domain, that of the domain's first URL
TasksPerDomain(urls) ==
    LET first == {i \in 1..Len(urls) :
                    \A j \in 1..(i - 1) :
                        urlparse(Normalise(urls[j])).netloc
                            # urlparse(Normalise(urls[i])).netloc}
        upto[n \in 0..Len(urls)] ==
            IF n = 0 THEN << >>
            ELSE IF n \in first THEN Append(upto[n - 1], Future(urls[n]))
            ELSE upto[n - 1]
    IN  upto[Len(urls)]

\* line 171: executor.submit(process_url, url) for url in url_list
Tasks(urls) == [i \in 1..Len(urls) |-> Future(urls[i])]

\* lines 168-171
Submit ==
    /\ main_pc = "init"
    /\ url_list' = StripLines(input_lines)
    /\ futures' = Tasks(StripLines(input_lines))
    /\ main_pc' = "waiting"
    /\ UNCHANGED << input_lines, port_queue, results, domain_successes,
                    domain_errors >>
    /\ UNCHANGED notExtractVars

\* process_url up to the static fetch (lines 145-149 and 36-38).  urlparse
\* raises at line 145 outside the try, or at line 148 inside it and then
\* again in the handler at line 153: either way process_url raises.
ProcessUrlBegin(i) ==
    /\ futures[i].pc = "pending"
    /\ LET url == futures[i].url
           nurl == Normalise(url)
       IN  IF ~urlparse(url).ok \/ ~urlparse(nurl).ok
           THEN futures' = [futures EXCEPT ![i].pc = "raised"]
           ELSE futures' = [futures EXCEPT ![i].pc = "static",
                                           ![i].url = nurl,
                                           ![i].domain = urlparse(nurl).netloc]
    /\ UNCHANGED << input_lines, url_list, port_queue, results,
                    domain_successes, domain_errors, main_pc >>
    /\ UNCHANGED notExtractVars

\* line 56
NeedsFallback(len) == len < MinStaticTextLen

\* lines 41-56
StaticFetch(i) ==
    /\ futures[i].pc = "static"
    /\ \E o \in StaticOutcomes :
        futures' = [futures EXCEPT
            ![i].static = << o >>,
            ![i].soup = (o.kind = "ok"),
            ![i].failed = IF o.kind = "raised" THEN {"static"} ELSE {},
            ![i].extracted_text =
                CASE o.kind = "raised" -> << "Error fetching" >>
                  [] o.kind = "ok" -> << "static text" >>
                  [] OTHER -> << >>,
            ![i].pc = IF NeedsFallback(o.len) THEN "acquire" ELSE "final"]
    /\ UNCHANGED << input_lines, url_list, port_queue, results,
                    domain_successes, domain_errors, main_pc >>
    /\ UNCHANGED notExtractVars

\* a variant that reads the first port and leaves it in the pool
AcquirePortLeftInPool(i) ==
    /\ futures[i].pc = "acquire"
    /\ port_queue # << >>
    /\ futures' = [futures EXCEPT ![i].remote_port = Head(port_queue),
                                  ![i].pc = "browser"]
    /\ UNCHANGED << input_lines, url_list, port_queue, results,
                    domain_successes, domain_errors, main_pc >>
    /\ UNCHANGED notExtractVars

\* line 67: port_queue.get() waits while the pool is empty
AcquirePort(i) ==
    /\ futures[i].pc = "acquire"
    /\ port_queue # << >>
    /\ futures' = [futures EXCEPT ![i].remote_port = Head(port_queue),
                                  ![i].pc = "browser"]
    /\ port_queue' = Tail(port_queue)
    /\ UNCHANGED << input_lines, url_list, results, domain_successes,
                    domain_errors, main_pc >>
    /\ UNCHANGED notExtractVars

\* lines 71-96.  The port goes back to the pool at line 94 only: an
\* exception before it jumps to line 95.
BrowserFetch(i) ==
    /\ futures[i].pc = "browser"
    /\ \E o \in BrowserOutcomes :
        /\ futures' = [futures EXCEPT
              ![i].soup = IF o = "launch_raises" THEN @ ELSE TRUE,
              ![i].failed = IF o = "ok" THEN @ ELSE @ \cup {"browser"},
              ![i].extracted_text =
                  CASE o = "launch_raises" -> Append(@, "Selenium fallback error")
                    [] o = "quit_raises" ->
                         << "selenium text", "Selenium fallback error" >>
                    [] OTHER -> << "selenium text" >>,
              ![i].pc = "final"]
        /\ port_queue' = IF o = "ok"
                         THEN Append(port_queue, futures[i].remote_port)
                         ELSE port_queue
    /\ UNCHANGED << input_lines, url_list, results, domain_successes,
                    domain_errors, main_pc >>
    /\ UNCHANGED notExtractVars

\* lines 99-136, and lines 150-151 of process_url
FinalStage(i) ==
    /\ futures[i].pc = "final"
    /\ IF IsPdfUrl(futures[i].url)
       THEN \E o \in PdfOutcomes :
            futures' = [futures EXCEPT
                ![i].failed = IF o = "raises" THEN @ \cup {"pdf"} ELSE @,
                ![i].extracted_text =
                    Append(@, IF o = "raises" THEN "PDF extraction error"
                              ELSE "PDF Extracted Text"),
                ![i].pc = "returned"]
       ELSE \E o \in OcrOutcomes :
            /\ o = "refetch_raises" => ~futures[i].soup
            /\ futures' = [futures EXCEPT
                ![i].failed = IF o \in {"refetch_raises", "image_raises"}
                              THEN @ \cup {"ocr"} ELSE @,
                ![i].extracted_text =
                    CASE o = "refetch_raises" -> Append(@, "OCR extraction error")
                      [] o = "image_raises" -> Append(@, "OCR error on")
                      [] o = "image_ok" -> Append(@, "OCR Extracted Text")
                      [] OTHER -> @,
                ![i].pc = "returned"]
    /\ UNCHANGED << input_lines, url_list, port_queue, results,
                    domain_successes, domain_errors, main_pc >>
    /\ UNCHANGED notExtractVars

\* lines 150-151: what process_url returns
ProcessUrlResult(f) ==
    [domain |-> f.domain,
     entry |-> << [url |-> f.url, page_text |-> f.extracted_text] >>,
     error |-> << >>]

\* lines 172-174: the next completed future, whichever it is.  result()
\* raises what process_url raised.
Collect(i) ==
    /\ main_pc = "waiting"
    /\ futures[i].pc \in {"returned", "raised"}
    /\ futures' = [futures EXCEPT ![i].pc = "collected"]
    /\ IF futures[i].pc = "raised"
       THEN /\ main_pc' = "raised"
            /\ results' = results
       ELSE /\ main_pc' = main_pc
            /\ results' = Append(results, ProcessUrlResult(futures[i]))
    /\ UNCHANGED << input_lines, url_list, port_queue, domain_successes,
                    domain_errors >>
    /\ UNCHANGED notExtractVars

RECURSIVE FileResults(_, _, _)
\* lines 178-188: a domain's entries (want_error = FALSE) or error
\* messages (TRUE), each "\n" + the next
FileResults(res, domain, want_error) ==
    IF res = << >> THEN << >>
    ELSE LET r == Head(res)
             mine == r.domain = domain /\ (r.error # << >>) = want_error
         IN  (IF mine THEN (IF want_error THEN r.error ELSE r.entry) ELSE << >>)
             \o FileResults(Tail(res), domain, want_error)

\* lines 176-196
Aggregate ==
    /\ main_pc = "waiting"
    /\ \A i \in 1..Len(futures) : futures[i].pc = "collected"
    /\ domain_successes' = [d \in Domains |-> FileResults(results, d, FALSE)]
    /\ domain_errors' = [d \in Domains |-> FileResults(results, d, TRUE)]
    /\ main_pc' = "done"
    /\ UNCHANGED << input_lines, url_list, futures, port_queue, results >>
    /\ UNCHANGED notExtractVars

ExtractNext ==
    \/ Submit
    \/ \E i \in 1..Len(futures) : ProcessUrlBegin(i)
    \/ \E i \in 1..Len(futures) : StaticFetch(i)
    \/ \E i \in 1..Len(futures) : AcquirePort(i)
    \/ \E i \in 1..Len(futures) : BrowserFetch(i)
    \/ \E i \in 1..Len(futures) : FinalStage(i)
    \/ \E i \in 1..Len(futures) : Collect(i)
    \/ Aggregate

SpecExtract ==
    /\ ExtractInit
    /\ [][ExtractNext]_vars

\* a later call of crawl_extract_text_from_log in the same process: the
\* call before it is over (the executor's with block has waited for every
\* worker, lines 170-174), the locals are new and the module's port_queue
\* is as the earlier calls left it
NextCall ==
    /\ main_pc \in {"done", "raised"}
    /\ \A i \in 1..Len(futures) :
        futures[i].pc \in {"returned", "raised", "collected"}
    /\ input_lines' \in Inputs
    /\ url_list' = << >>
    /\ futures' = << >>
    /\ results' = << >>
    /\ domain_successes' = [d \in Domains |-> << >>]
    /\ domain_errors' = [d \in Domains |-> << >>]
    /\ main_pc' = "init"
    /\ UNCHANGED port_queue
    /\ UNCHANGED notExtractVars

ExtractCallsNext ==
    \/ ExtractNext
    \/ NextCall

\* calls of crawl_extract_text_from_log one after the other
SpecExtractCalls ==
    /\ ExtractInit
    /\ [][ExtractCallsNext]_vars

\* a headless-browser fetch is in progress: a call holds a port
FetchInProgress == \E i \in 1..Len(futures) : futures[i].pc = "browser"

(***************************************************************************)
(* C11: every port taken for a headless-browser fetch is back in the pool  *)
(* when the fetch has ended, however it ended: whenever no fetch is in     *)
(* progress the pool holds all the ports of the range.                     *)
(***************************************************************************)
C11_PoolFullWhenNoFetch ==
    (main_pc # "idle" /\ ~FetchInProgress) => Range(port_queue) = Ports

\* the call waits for a port that can never come: the pool is empty and no
\* call holds a port it could return
WaitsForever(i) ==
    /\ futures[i].pc = "acquire"
    /\ port_queue = << >>
    /\ ~FetchInProgress

\* the inline error text of a stage
ErrorTextOf(stage) ==
    CASE stage = "static" -> {"Error fetching"}
      [] stage = "browser" -> {"Selenium fallback error"}
      [] stage = "pdf" -> {"PDF extraction error"}
      [] OTHER -> {"OCR extraction error", "OCR error on"}

(***************************************************************************)
(* C12: whatever the outcomes of the stages, the call process_url(url)     *)
(* returns a record: it does not raise, it does not wait forever, and the  *)
(* record it returns carries the error text of every stage that failed (of *)
(* the static fetch unless the fallback then succeeded).                   *)
(***************************************************************************)
C12_AlwaysReturnsRecord ==
    \A i \in 1..Len(futures) :
        LET f == futures[i]
        IN  /\ f.pc # "raised"
            /\ ~WaitsForever(i)
            /\ f.pc \in {"returned", "collected"} =>
                \A stage \in f.failed :
                    \/ ErrorTextOf(stage) \cap Range(f.extracted_text) # {}
                    \/ stage = "static" /\ "selenium text" \in Range(f.extracted_text)

\* the domain of an input line
DomainOfLine(line) == urlparse(Normalise(line)).netloc

\* the entries and error messages filed under a domain
FiledUnder(d) == domain_successes[d] \o domain_errors[d]

(***************************************************************************)
(* C13: crawl_extract_text_from_log returns for every input, and what it   *)
(* returns holds exactly one entry per non-blank input line, filed under   *)
(* the line's own domain.                                                  *)
(***************************************************************************)
(***************************************************************************)
(* C21: work is parallel across domains only: two input URLs of the same   *)
(* domain are never being processed by worker threads at the same time.    *)
(***************************************************************************)
\* the call process_url of future i has begun and has not ended
BeingProcessed(i) ==
    futures[i].pc \in {"static", "acquire", "browser", "final"}

C21_SameDomainNeverTogether ==
    \A i, j \in 1..Len(futures) :
        /\ i # j
        /\ BeingProcessed(i) /\ BeingProcessed(j)
        => futures[i].domain # futures[j].domain

\* C21, amended: there is one call of process_url for each line of the
\* input that is not blank, whatever its domain, the i-th call being for
\* the i-th such line
C21_OneTaskPerLine ==
    main_pc # "init" =>
        /\ url_list = StripLines(input_lines)
        /\ Len(futures) = Len(url_list)
        /\ \A i \in 1..Len(futures) :
            futures[i].url \in {url_list[i], Normalise(url_list[i])}

\* two calls for URLs of one domain, both past their static fetch
C21_Witness ==
    \E i, j \in 1..Len(futures) :
        /\ i # j
        /\ futures[i].domain = futures[j].domain
        /\ futures[i].pc = "final" /\ futures[j].pc = "acquire"

(***************************************************************************)
(* C22: for a URL that ends with .pdf the extraction goes to the PDF path  *)
(* instead of the HTML path: neither the static fetch and parse nor the    *)
(* headless-browser fetch is made for it.                                  *)
(***************************************************************************)
C22_PdfSkipsHtmlPath ==
    \A i \in 1..Len(futures) :
        IsPdfUrl(futures[i].url) =>
            /\ futures[i].static = << >>
            /\ futures[i].remote_port = 0

(***************************************************************************)
(* C24: no two headless-browser fetches in progress at the same time hold  *)
(* the same debug port: a port handed out by the pool is held by one fetch *)
(* at most, and is not in the pool, until it is put back.                  *)
(***************************************************************************)
\* future i holds a port: it is between lines 67 and 94
HoldsPort(i) == futures[i].pc = "browser"

C24_PortHeldByOneFetch ==
    \A i \in 1..Len(futures) :
        HoldsPort(i) =>
            /\ futures[i].remote_port \in Ports
            /\ \A k \in 1..Len(port_queue) :
                port_queue[k] # futures[i].remote_port
            /\ \A j \in 1..Len(futures) :
                j # i /\ HoldsPort(j) =>
                    futures[j].remote_port # futures[i].remote_port

\* two browser fetches in progress together
C24_Witness ==
    \E i, j \in 1..Len(futures) :
        /\ i # j
        /\ HoldsPort(i) /\ HoldsPort(j)
        /\ futures[i].remote_port = PORT_RANGE_START
        /\ futures[j].remote_port = PORT_RANGE_START + 1

(***************************************************************************)
(* C25: every call of crawl_extract_text_from_log returns, whatever the    *)
(* calls before it in the process: no worker thread waits for ever for a   *)
(* debug port, also after headless-browser fetches have failed.  A worker  *)
(* at line 67 with the pool empty and no fetch holding a port waits for    *)
(* ever, no step being left that puts a port back, and the call that       *)
(* waits for the worker at line 172 never returns.                         *)
(***************************************************************************)
C25_NoWorkerWaitsForever ==
    \A i \in 1..Len(futures) : ~WaitsForever(i)

C13_OneEntryPerLine ==
    /\ main_pc # "raised"
    /\ main_pc = "done" =>
        /\ Len(url_list) =
             Cardinality({k \in 1..Len(input_lines) : StripStr(input_lines[k]) # ""})
        /\ \A d \in Domains :
            /\ Len(FiledUnder(d)) =
                 Cardinality({k \in 1..Len(url_list) : DomainOfLine(url_list[k]) = d})
            /\ \A k \in 1..Len(FiledUnder(d)) :
                 urlparse(FiledUnder(d)[k].url).netloc = d

(***************************************************************************)
(* web_scraper.ai_assisted_robots_analysis: the prioritized URLs of each   *)
(* site of url_list.                                                       *)
(***************************************************************************)
\* the longest url_list
MaxSites == 2
\* the longest list of leadership paths discover_site_structure returns
MaxLeadership == 11
\* the most paths the model's answer names, the lines that name none apart
MaxSuggested == 11

\* line 172: leadership_paths[:10]
LeadershipLimit == 10
\* line 231: len(site_nodes) < 20
SiteNodeLimit == 20
\* line 240: leadership_paths[:5]
FallbackLimit == 5

RobotsSeeds == {"https://a.com/p1", "https://b.org/"}

RobotsUrlLists == UNION {[1..n -> RobotsSeeds] : n \in 1..MaxSites}

\* the paths of a site: /p1, /p2, ...
PathName(n) == "/p" \o ToString(n)

PathsFromTo(a, b) == [i \in 1..(b - a + 1) |-> PathName(a + i - 1)]

\* how many leadership paths a site has: none, one, more than the loop of
\* line 172 takes
LeadershipLengths == {0, 1, MaxLeadership}

\* what discover_site_structure can return as leadership_paths: n paths,
\* or as many with the first of them found twice
LeadershipLists ==
    {PathsFromTo(1, n) : n \in LeadershipLengths}
    \cup {<< PathName(1) >> \o PathsFromTo(1, MaxLeadership - 1)}

\* lines of the model's answer that name no new path: a blank line, a path
\* with a number in front, a path without its slash, a path with a
\* description, a full URL, a sentence
OddLines ==
    << "", "1. /p1", "p2", "/p3 - team", "https://a.com/p4",
       "see the about page" >>

\* what the model can answer: nothing, the odd lines and paths the site is
\* known to have, paths not yet added
SuggestedLists ==
    {<< >>,
     OddLines \o PathsFromTo(1, MaxSuggested),
     PathsFromTo(MaxLeadership, MaxLeadership + MaxSuggested - 1)}

\* the calls of the external model: both answer, the first raises, the
\* second raises
ModelOutcomes == {"ok", "analysis_raises", "paths_raises"}

\* line 160
BaseUrl(url) == urlparse(url).scheme \o "://" \o urlparse(url).netloc

\* urljoin(base_url, path) for a path that begins with one slash
UrlJoinPath(base_url, path) == base_url \o path

\* seq[:n]
Prefix(seq, n) == SubSeq(seq, 1, Min(n, Len(seq)))

RECURSIVE FindSub(_, _, _)
\* the first position from i on of sub in s, 0 if there is none
FindSub(s, sub, i) ==
    IF i + Len(sub) - 1 > Len(s) THEN 0
    ELSE IF SubSeq(s, i, i + Len(sub) - 1) = sub THEN i
    ELSE FindSub(s, sub, i + 1)

RECURSIVE WordCount(_, _, _)
\* len(s.split()) from position i on; in_word: position i - 1 is in a word
WordCount(s, i, in_word) ==
    IF i > Len(s) THEN 0
    ELSE IF CharAt(s, i) \in Whitespace THEN WordCount(s, i + 1, FALSE)
    ELSE (IF in_word THEN 0 ELSE 1) + WordCount(s, i + 1, TRUE)

StartsWith(s, prefix) ==
    Len(s) >= Len(prefix) /\ SubSeq(s, 1, Len(prefix)) = prefix

NumberingChars ==
    {"0", "1", "2", "3", "4", "5", "6", "7", "8", "9", ".", ")", "-", "*"}

RECURSIVE SkipChars(_, _)
\* s without its leading characters of cs
SkipChars(s, cs) ==
    IF Len(s) > 0 /\ CharAt(s, 1) \in cs
    THEN SkipChars(SubSeq(s, 2, Len(s)), cs) ELSE s

\* line 227: re.sub(r'^[\d\.\)\-\*]+\s*', '', path)
StripNumbering(path) ==
    IF Len(path) > 0 /\ CharAt(path, 1) \in NumberingChars
    THEN SkipChars(SkipChars(path, NumberingChars), Whitespace)
    ELSE path

\* lines 222-229: the path a line of the answer stands for, << >> if the
\* line is skipped
CleanPath(line) ==
    LET path == StripStr(line)
        dash == FindSub(path, " - ", 1)
        left == IF dash > 0 THEN StripStr(SubSeq(path, 1, dash - 1)) ELSE path
        bare == StripNumbering(left)
    IN  IF path = "" \/ WordCount(path, 1, FALSE) > 3 \/ StartsWith(path, "http")
        THEN << >>
        ELSE IF StartsWith(bare, "/") THEN << bare >> ELSE << "/" \o bare >>

\* the lists a site is working with
SiteState(nodes, added) == [site_nodes |-> nodes, already_added_urls |-> added]

\* lines 174-176, 231-233 and 242-244: append a URL not yet added
AddUrl(st, full_path) ==
    IF full_path \notin st.already_added_urls
    THEN SiteState(Append(st.site_nodes, full_path),
                   st.already_added_urls \cup {full_path})
    ELSE st

RECURSIVE AddPaths(_, _, _)
AddPaths(st, base_url, paths) ==
    IF paths = << >> THEN st
    ELSE AddPaths(AddUrl(st, UrlJoinPath(base_url, Head(paths))), base_url,
                  Tail(paths))

\* lines 170-176
KeywordNodes(base_url, leadership) ==
    AddPaths(SiteState(<< >>, {}), base_url, Prefix(leadership, LeadershipLimit))

\* line 231: there is room for one more node
HasRoomAlways(nodes) == TRUE

HasRoom(nodes) == Len(nodes) < SiteNodeLimit

RECURSIVE AddSuggested(_, _, _)
\* lines 221-233
AddSuggested(st, base_url, lines) ==
    IF lines = << >> THEN st
    ELSE LET path == CleanPath(Head(lines))
             next == IF path # << >> /\ HasRoom(st.site_nodes)
                     THEN AddUrl(st, UrlJoinPath(base_url, path[1]))
                     ELSE st
         IN  AddSuggested(next, base_url, Tail(lines))

\* lines 237-244: what the handler appends to prioritized_urls
Fallback(st, url, base_url, leadership) ==
    LET seeded == AddUrl(SiteState(<< >>, st.already_added_urls), url)
    IN  AddPaths(seeded, base_url, Prefix(leadership, FallbackLimit)).site_nodes

RobotsInit ==
    /\ robots_urls \in RobotsUrlLists
    /\ site_idx = 1
    /\ leadership_paths = << >>
    /\ site_nodes = << >>
    /\ already_added_urls = {}
    /\ prioritized_urls = << >>
    /\ ai_analysis_text = 0
    /\ site_log = << >>
    /\ robots_pc = "discover"
    /\ max_depth = 0
    /\ seed = [netloc |-> "", path |-> ""]
    /\ visited = {}
    /\ stack = << >>
    /\ result = << >>
    /\ crawl_pc = "idle"
    /\ static_resp = << >>
    /\ soup_of = {}
    /\ soup_calls = << >>
    /\ links_of = << >>
    /\ anchors = 0
    /\ text = << >>
    /\ chunk_size = 0
    /\ final_chunks = << >>
    /\ chunk_pc = "idle"
    /\ query_embedding = << >>
    /\ vector_store = << >>
    /\ top_k = 0
    /\ retrieved = << >>
    /\ retr_pc = "idle"
    /\ query = ""
    /\ expanded_query = ""
    /\ expand_pc = "idle"
    /\ input_lines = << >>
    /\ url_list = << >>
    /\ futures = << >>
    /\ port_queue = << >>
    /\ results = << >>
    /\ domain_successes = << >>
    /\ domain_errors = << >>
    /\ main_pc = "idle"
    /\ crawled_text = FALSE
    /\ chat_history = << >>
    /\ messages = << >>
    /\ chat_pc = "idle"
    /\ web = << >>
    /\ web_depth = 0
    /\ web_tree = << >>
    /\ web_pc = "idle"
    /\ conversion_type = ""
    /\ pdf_text = << >>
    /\ pdf_chat_history = << >>
    /\ pdf_source = << >>
    /\ pdf_run = "idle"
    /\ mode = ""
    /\ page = "idle"
    /\ pressed = "none"
    /\ query_params = {}
    /\ linkedin_configured = FALSE
    /\ search_results = "None"
    /\ selected_job = FALSE
    /\ saved_searches = << >>

\* lines 159-176 for the site in hand
DiscoverSite ==
    /\ robots_pc = "discover"
    /\ \E leadership \in LeadershipLists :
        LET st == KeywordNodes(BaseUrl(robots_urls[site_idx]), leadership)
        IN  /\ leadership_paths' = leadership
            /\ site_nodes' = st.site_nodes
            /\ already_added_urls' = st.already_added_urls
    /\ robots_pc' = "model"
    /\ UNCHANGED << robots_urls, site_idx, prioritized_urls, ai_analysis_text,
                    site_log >>
    /\ UNCHANGED notRobotsVars

\* lines 177-244 for the site in hand, and the next turn of the loop of
\* line 158 or the return of line 245
ModelAnswers ==
    /\ robots_pc = "model"
    /\ \E outcome \in ModelOutcomes, lines \in SuggestedLists :
        LET url == robots_urls[site_idx]
            st == SiteState(site_nodes, already_added_urls)
            contribution ==
                IF outcome = "ok"
                THEN AddSuggested(st, BaseUrl(url), lines).site_nodes
                ELSE Fallback(st, url, BaseUrl(url), leadership_paths)
        IN  /\ prioritized_urls' = prioritized_urls \o contribution
            /\ ai_analysis_text' = IF outcome = "analysis_raises"
                                   THEN ai_analysis_text
                                   ELSE ai_analysis_text + 1
            /\ site_log' = Append(site_log,
                   [url |-> url, raised |-> outcome # "ok",
                    leadership |-> leadership_paths,
                    contribution |-> contribution])
    /\ IF site_idx < Len(robots_urls)
       THEN /\ site_idx' = site_idx + 1
            /\ robots_pc' = "discover"
       ELSE /\ site_idx' = site_idx
            /\ robots_pc' = "done"
    /\ UNCHANGED << robots_urls, leadership_paths, site_nodes,
                    already_added_urls >>
    /\ UNCHANGED notRobotsVars

RobotsNext == DiscoverSite \/ ModelAnswers

SpecRobots ==
    /\ RobotsInit
    /\ [][RobotsNext]_vars

\* the sequence has no element twice
NoDuplicates(seq) == \A i, j \in 1..Len(seq) : seq[i] = seq[j] => i = j

\* the full URLs of the first paths the handler is to take
FallbackPaths(e) ==
    {UrlJoinPath(BaseUrl(e.url), path) :
        path \in Range(Prefix(e.leadership, FallbackLimit))}

(***************************************************************************)
(* C14: a site whose model call raised contributes the seed URL itself     *)
(* and after it the site's first keyword-matched paths, up to 5 of them.   *)
(***************************************************************************)
C14_FallbackIsSeedPlusPaths ==
    \A k \in 1..Len(site_log) :
        LET e == site_log[k]
        IN  e.raised =>
              /\ e.contribution # << >>
              /\ Head(e.contribution) = e.url
              /\ Len(Tail(e.contribution)) <= FallbackLimit
              /\ Range(Tail(e.contribution)) = FallbackPaths(e) \ {e.url}

(***************************************************************************)
(* C27: every site URL given contributes one URL at least to the           *)
(* prioritized list, whether the model calls succeed or raise, also when   *)
(* no path is discovered or suggested and when the seed URL is one of its  *)
(* own keyword-matched paths.                                              *)
(***************************************************************************)
C27_EverySiteContributes ==
    \A k \in 1..Len(site_log) : site_log[k].contribution # << >>

(***************************************************************************)
(* C15: what a site contributes to the prioritized list, keyword-matched   *)
(* and suggested URLs together, has no URL twice and at most 20 URLs.      *)
(***************************************************************************)
C15_NoDuplicatesAtMostTwenty ==
    /\ NoDuplicates(site_nodes) /\ Len(site_nodes) <= SiteNodeLimit
    /\ \A k \in 1..Len(site_log) :
        /\ NoDuplicates(site_log[k].contribution)
        /\ Len(site_log[k].contribution) <= SiteNodeLimit

\* a site with a path found twice and more than 10 leadership paths, for
\* which the model names more paths than there is room for, some of them
\* already added: it contributes 20 URLs
C15_Witness ==
    \E k \in 1..Len(site_log) :
        LET e == site_log[k]
        IN  /\ ~e.raised
            /\ Len(e.contribution) = SiteNodeLimit
            /\ Len(e.leadership) > LeadershipLimit
            /\ ~NoDuplicates(e.leadership)

(***************************************************************************)
(* chat_wrapper.run_chat: one run of the script per interaction.  A run    *)
(* that calls the model is two steps, the call being the moment at which   *)
(* the run can end early (the call raises).                                *)
(***************************************************************************)
\* the longest chat history
MaxHistory == 4

UserInputs == {"who is the CEO", "and the CSO"}

Responses == {"answer one", "answer two"}

\* what retrieve_relevant_context returns: nothing over the threshold, or
\* some chunks
RetrievedContexts == {"", "chunk text"}

Turn(role, content) == [role |-> role, content |-> content]

\* lines 240-242 and 276-278: the system message of a call
SystemMessage(retrieved_context) ==
    Turn("system",
         IF retrieved_context # ""
         THEN "system_prompt" \o "\n\nRelevant context:\n" \o retrieved_context
         ELSE "system_prompt")

\* lines 258, 264, 290: chat_history.append(turn)
AppendTurnReplacing(history, turn) == << turn >>

AppendTurn(history, turn) == Append(history, turn)

ChatInit ==
    /\ crawled_text \in BOOLEAN
    /\ chat_history = << >>
    /\ messages = << >>
    /\ chat_pc = "ready"
    /\ max_depth = 0
    /\ seed = [netloc |-> "", path |-> ""]
    /\ visited = {}
    /\ stack = << >>
    /\ result = << >>
    /\ crawl_pc = "idle"
    /\ static_resp = << >>
    /\ soup_of = {}
    /\ soup_calls = << >>
    /\ links_of = << >>
    /\ anchors = 0
    /\ text = << >>
    /\ chunk_size = 0
    /\ final_chunks = << >>
    /\ chunk_pc = "idle"
    /\ query_embedding = << >>
    /\ vector_store = << >>
    /\ top_k = 0
    /\ retrieved = << >>
    /\ retr_pc = "idle"
    /\ query = ""
    /\ expanded_query = ""
    /\ expand_pc = "idle"
    /\ input_lines = << >>
    /\ url_list = << >>
    /\ futures = << >>
    /\ port_queue = << >>
    /\ results = << >>
    /\ domain_successes = << >>
    /\ domain_errors = << >>
    /\ main_pc = "idle"
    /\ robots_urls = << >>
    /\ site_idx = 0
    /\ leadership_paths = << >>
    /\ site_nodes = << >>
    /\ already_added_urls = {}
    /\ prioritized_urls = << >>
    /\ ai_analysis_text = 0
    /\ site_log = << >>
    /\ robots_pc = "idle"
    /\ web = << >>
    /\ web_depth = 0
    /\ web_tree = << >>
    /\ web_pc = "idle"
    /\ conversion_type = ""
    /\ pdf_text = << >>
    /\ pdf_chat_history = << >>
    /\ pdf_source = << >>
    /\ pdf_run = "idle"
    /\ mode = ""
    /\ page = "idle"
    /\ pressed = "none"
    /\ query_params = {}
    /\ linkedin_configured = FALSE
    /\ search_results = "None"
    /\ selected_job = FALSE
    /\ saved_searches = << >>

\* lines 211-213: no crawled text, the run ends
RunWithoutText ==
    /\ chat_pc = "ready"
    /\ ~crawled_text
    /\ UNCHANGED chatVars
    /\ UNCHANGED notChatVars

\* lines 231-250: the first run, up to the call
FirstRun ==
    /\ chat_pc = "ready"
    /\ crawled_text
    /\ chat_history = << >>
    /\ \E retrieved_context \in RetrievedContexts :
        messages' = << SystemMessage(retrieved_context),
                       Turn("user", "default_query") >>
    /\ chat_pc' = "first_call"
    /\ UNCHANGED << crawled_text, chat_history >>
    /\ UNCHANGED notChatVars

\* lines 263-282: a run with user input, up to the call
FollowUp ==
    /\ chat_pc = "ready"
    /\ crawled_text
    /\ chat_history # << >>
    /\ Len(chat_history) < MaxHistory
    /\ \E user_input \in UserInputs, retrieved_context \in RetrievedContexts :
        LET history == AppendTurn(chat_history, Turn("user", user_input))
        IN  /\ chat_history' = history
            /\ messages' = << SystemMessage(retrieved_context) >> \o history
    /\ chat_pc' = "follow_up_call"
    /\ UNCHANGED crawled_text
    /\ UNCHANGED notChatVars

\* lines 251-259 and 283-291: the model answers, the answer is appended
\* and the script is run again
ModelReplies ==
    /\ chat_pc \in {"first_call", "follow_up_call"}
    /\ \E response \in Responses :
        chat_history' = AppendTurn(chat_history, Turn("assistant", response))
    /\ messages' = << >>
    /\ chat_pc' = "ready"
    /\ UNCHANGED crawled_text
    /\ UNCHANGED notChatVars

\* lines 251 and 283: the call raises and the run ends there
ModelRaises ==
    /\ chat_pc \in {"first_call", "follow_up_call"}
    /\ messages' = << >>
    /\ chat_pc' = "ready"
    /\ UNCHANGED << crawled_text, chat_history >>
    /\ UNCHANGED notChatVars

ChatNext ==
    RunWithoutText \/ FirstRun \/ FollowUp \/ ModelReplies \/ ModelRaises

SpecChat ==
    /\ ChatInit
    /\ [][ChatNext]_vars

\* s is the beginning of t
IsPrefixOf(s, t) == Len(s) <= Len(t) /\ SubSeq(t, 1, Len(s)) = s

(***************************************************************************)
(* C16: the chat history is append-only, a step leaving the turns it holds *)
(* as they are and in their places, and it holds user and assistant turns  *)
(* only: the system message with the retrieved context is in the messages  *)
(* of a call and never in the history.                                     *)
(***************************************************************************)
C16_HistoryAppendOnly ==
    /\ [][IsPrefixOf(chat_history, chat_history')]_vars
    /\ [](\A i \in 1..Len(chat_history) :
            /\ chat_history[i].role \in {"user", "assistant"}
            /\ chat_history[i].content \in UserInputs \cup Responses)

\* a follow-up call in progress: the history holds the first answer, a
\* user turn left without answer by a call that raised, and the new user
\* turn, and the messages of the call begin with the system message that
\* carries the retrieved context
C16_Witness ==
    /\ chat_pc = "follow_up_call"
    /\ Len(chat_history) = 3
    /\ chat_history[2].role = "user" /\ chat_history[3].role = "user"
    /\ messages[1] = SystemMessage("chunk text")
    /\ SubSeq(messages, 2, Len(messages)) = chat_history

(***************************************************************************)
(* C23: every user turn is followed by an assistant reply before the next  *)
(* user turn is added: the history never holds two user turns in a row,    *)
(* also when the call to the model fails.                                  *)
(***************************************************************************)
C23_NoTwoUserTurnsInARow ==
    \A i \in 1..(Len(chat_history) - 1) :
        ~(chat_history[i].role = "user" /\ chat_history[i + 1].role = "user")

(***************************************************************************)
(* recursive_extract on a site whose pages and links are given in advance, *)
(* every fetch succeeding (extract_article_content gets a 200 and get_soup *)
(* a soup): the tree it returns is then a function of the site, the seed   *)
(* and max_depth.                                                          *)
(***************************************************************************)
WebPaths == Paths \cup {"/c"}

WebPages == [netloc : {"example.com"}, path : WebPaths]

WebSeed == [netloc |-> "example.com", path |-> "/"]

\* what a link can resolve to: a page of the site, or a page elsewhere
WebTargets == WebPages \cup {[netloc |-> "other.org", path |-> "/"]}

\* the links of a page: none, one, or two different ones
LinkLists ==
    {<< >>} \cup {<< t >> : t \in WebTargets}
    \cup {l \in {<< t, u >> : t \in WebTargets, u \in WebTargets} :
                l[1] # l[2]}

RECURSIVE CountLinks(_, _)
CountLinks(w, pages) ==
    IF pages = {} THEN 0
    ELSE LET p == CHOOSE q \in pages : TRUE
         IN  Len(w[p]) + CountLinks(w, pages \ {p})

\* the sites with MaxLinks links at most, no page linking to itself
Webs ==
    {w \in [WebPages -> LinkLists] :
        /\ \A p \in WebPages : \A k \in 1..Len(w[p]) : w[p][k] # p
        /\ CountLinks(w, WebPages) <= MaxLinks}

OkResponse == [raised |-> FALSE, status_code |-> 200]

RECURSIVE WebExtract(_, _, _, _, _)
RECURSIVE WebLoop(_, _, _, _, _, _)
\* recursive_extract(url, current_depth, limit, vis) on the site w: the
\* value returned (<< >> for None) and the visited set after the call
WebExtract(w, url, current_depth, limit, vis) ==
    IF CallReturnsNone(url, vis) THEN [ret |-> << >>, vis |-> vis]
    ELSE LET page_data == PageDataOf(url, OkResponse)
             entered == MarkVisited(vis, url)
         IN  IF DepthAllows(current_depth, limit)
             THEN LET loop == WebLoop(w, url, current_depth, limit, w[url],
                                      [sub_pages |-> << >>, vis |-> entered])
                  IN  [ret |-> << ReturnValue(page_data, loop.sub_pages) >>,
                       vis |-> loop.vis]
             ELSE [ret |-> << page_data >>, vis |-> entered]

\* the loop of lines 284-291 over the links left, st being sub_pages and
\* the visited set so far
WebLoop(w, url, current_depth, limit, links, st) ==
    IF links = << >> THEN st
    ELSE LET full_url == Head(links)
         IN  IF ShouldRecurse(url, full_url, st.vis)
             THEN LET call == WebExtract(w, full_url, current_depth + 1,
                                         limit, st.vis)
                  IN  WebLoop(w, url, current_depth, limit, Tail(links),
                              [sub_pages |->
                                   AppendSubResult(st.sub_pages, call.ret),
                               vis |-> call.vis])
             ELSE WebLoop(w, url, current_depth, limit, Tail(links), st)

WebInit ==
    /\ web \in Webs
    /\ web_depth \in 0..MaxDepth
    /\ web_tree = << >>
    /\ web_pc = "input"
    /\ max_depth = 0
    /\ seed = [netloc |-> "", path |-> ""]
    /\ visited = {}
    /\ stack = << >>
    /\ result = << >>
    /\ crawl_pc = "idle"
    /\ static_resp = << >>
    /\ soup_of = {}
    /\ soup_calls = << >>
    /\ links_of = << >>
    /\ anchors = 0
    /\ text = << >>
    /\ chunk_size = 0
    /\ final_chunks = << >>
    /\ chunk_pc = "idle"
    /\ query_embedding = << >>
    /\ vector_store = << >>
    /\ top_k = 0
    /\ retrieved = << >>
    /\ retr_pc = "idle"
    /\ query = ""
    /\ expanded_query = ""
    /\ expand_pc = "idle"
    /\ input_lines = << >>
    /\ url_list = << >>
    /\ futures = << >>
    /\ port_queue = << >>
    /\ results = << >>
    /\ domain_successes = << >>
    /\ domain_errors = << >>
    /\ main_pc = "idle"
    /\ robots_urls = << >>
    /\ site_idx = 0
    /\ leadership_paths = << >>
    /\ site_nodes = << >>
    /\ already_added_urls = {}
    /\ prioritized_urls = << >>
    /\ ai_analysis_text = 0
    /\ site_log = << >>
    /\ robots_pc = "idle"
    /\ crawled_text = FALSE
    /\ chat_history = << >>
    /\ messages = << >>
    /\ chat_pc = "idle"
    /\ conversion_type = ""
    /\ pdf_text = << >>
    /\ pdf_chat_history = << >>
    /\ pdf_source = << >>
    /\ pdf_run = "idle"
    /\ mode = ""
    /\ page = "idle"
    /\ pressed = "none"
    /\ query_params = {}
    /\ linkedin_configured = FALSE
    /\ search_results = "None"
    /\ selected_job = FALSE
    /\ saved_searches = << >>

\* recursive_extract(seed, 0, max_depth)
CrawlWeb ==
    /\ web_pc = "input"
    /\ web_tree' = WebExtract(web, WebSeed, 0, web_depth, {}).ret
    /\ web_pc' = "done"
    /\ UNCHANGED << web, web_depth >>
    /\ UNCHANGED notWebVars

WebNext == CrawlWeb

SpecWeb ==
    /\ WebInit
    /\ [][WebNext]_vars

RECURSIVE Reach(_)
\* the pages of the site a chain of n links at most leads to from the seed
Reach(n) ==
    IF n = 0 THEN {WebSeed}
    ELSE Reach(n - 1)
         \cup {t \in WebPages :
                 \E u \in Reach(n - 1) : \E k \in 1..Len(web[u]) : web[u][k] = t}

\* the rows of the tree returned
WebRows == flatten_recursive_data(web_tree[1], 0)

WebTreeURLs == {WebRows[i].URL : i \in 1..Len(WebRows)}

(***************************************************************************)
(* C26: the crawl is complete within the depth limit: every fetch          *)
(* succeeding, every page of the seed's site that a chain of max_depth     *)
(* links at most leads to from the seed is in the tree returned.           *)
(***************************************************************************)
C26_CompleteWithinDepth ==
    web_pc = "done" => Reach(web_depth) \subseteq WebTreeURLs

\* C26, amended: every fetch succeeding, every link to the seed's site on
\* a page that stands in the tree above depth max_depth is in the tree
C26_LinksAboveDepthInTree ==
    web_pc = "done" =>
        \A i \in 1..Len(WebRows) :
            WebRows[i].Depth < web_depth =>
                \A k \in 1..Len(web[WebRows[i].URL]) :
                    LET full_url == web[WebRows[i].URL][k]
                    IN  Netloc(full_url) = Netloc(WebSeed) =>
                            full_url \in WebTreeURLs

\* a page two links from the seed is missing with max_depth = 2: the page
\* before it stands at depth 2, first reached by a longer chain
C26_Witness ==
    /\ web_pc = "done"
    /\ web_depth = 2
    /\ \E t \in Reach(2) : t \notin WebTreeURLs
    /\ \E i \in 1..Len(WebRows) :
        WebRows[i].Depth = 2 /\ WebRows[i].URL \in Reach(1)

(***************************************************************************)
(* pdf_extractor.run_app: one run of the script per interaction, in a      *)
(* session of its own.                                                     *)
(***************************************************************************)
ChatWithPdf == "Chat with PDF"

\* the options for which the text is shown and no file is written
TextOptions == {"Convert to Text", ChatWithPdf}

\* the options for which the PDF is written to a temporary file
FileOptions ==
    {"Convert to Excel (CSV)", "Convert to Excel (XLSX)", "Convert to Word"}

ConversionOptions == FileOptions \cup TextOptions

\* what the extraction gives: nothing, or some text
ExtractedTexts == {"", "text of the PDF"}

\* the answers of ask_pdf_question, which catches what the call raises
PdfAnswers == {"answer", "Error: timeout"}

\* lines 246-247 and 310-311: reached when open(tmp_path) has not raised,
\* that is when tmp_path is a file's path and not None
ShowHistory(history, tmp_path_set) ==
    IF tmp_path_set /\ history = << >> THEN << << >> >> ELSE history

PdfInit ==
    /\ conversion_type = "Convert to Excel (CSV)"
    /\ pdf_text = << >>
    /\ pdf_chat_history = << >>
    /\ pdf_source = << >>
    /\ pdf_run = "start"
    /\ max_depth = 0
    /\ seed = [netloc |-> "", path |-> ""]
    /\ visited = {}
    /\ stack = << >>
    /\ result = << >>
    /\ crawl_pc = "idle"
    /\ static_resp = << >>
    /\ soup_of = {}
    /\ soup_calls = << >>
    /\ links_of = << >>
    /\ anchors = 0
    /\ text = << >>
    /\ chunk_size = 0
    /\ final_chunks = << >>
    /\ chunk_pc = "idle"
    /\ query_embedding = << >>
    /\ vector_store = << >>
    /\ top_k = 0
    /\ retrieved = << >>
    /\ retr_pc = "idle"
    /\ query = ""
    /\ expanded_query = ""
    /\ expand_pc = "idle"
    /\ input_lines = << >>
    /\ url_list = << >>
    /\ futures = << >>
    /\ port_queue = << >>
    /\ results = << >>
    /\ domain_successes = << >>
    /\ domain_errors = << >>
    /\ main_pc = "idle"
    /\ robots_urls = << >>
    /\ site_idx = 0
    /\ leadership_paths = << >>
    /\ site_nodes = << >>
    /\ already_added_urls = {}
    /\ prioritized_urls = << >>
    /\ ai_analysis_text = 0
    /\ site_log = << >>
    /\ robots_pc = "idle"
    /\ crawled_text = FALSE
    /\ chat_history = << >>
    /\ messages = << >>
    /\ chat_pc = "idle"
    /\ web = << >>
    /\ web_depth = 0
    /\ web_tree = << >>
    /\ web_pc = "idle"
    /\ mode = ""
    /\ page = "idle"
    /\ pressed = "none"
    /\ query_params = {}
    /\ linkedin_configured = FALSE
    /\ search_results = "None"
    /\ selected_job = FALSE
    /\ saved_searches = << >>

\* line 182: another option of the radio is chosen
SelectOption ==
    /\ \E option \in ConversionOptions \ {conversion_type} :
        conversion_type' = option
    /\ pdf_run' = "option"
    /\ UNCHANGED << pdf_text, pdf_chat_history, pdf_source >>
    /\ UNCHANGED notPdfVars

\* lines 193-256: "Process URL" with a URL entered.  tmp_path is set at
\* line 209 only, for the options that convert and when the download of
\* lines 203-206 has not raised.
ProcessUrl ==
    /\ \E extracted_text \in ExtractedTexts, download_raises \in BOOLEAN :
        LET tmp_path_set ==
                conversion_type \notin TextOptions /\ ~download_raises
        IN  /\ pdf_text' = << extracted_text >>
            /\ pdf_chat_history' = ShowHistory(pdf_chat_history, tmp_path_set)
    /\ pdf_source' = << [by |-> "url", option |-> conversion_type] >>
    /\ pdf_run' = "processed"
    /\ UNCHANGED conversion_type
    /\ UNCHANGED notPdfVars

\* lines 259-320: a file is uploaded.  tmp_path is set at line 265, unless
\* writing the file raises (line 319).
UploadPdf ==
    /\ \E extracted_text \in ExtractedTexts, write_raises \in BOOLEAN :
        IF write_raises
        THEN UNCHANGED << pdf_text, pdf_chat_history, pdf_source >>
        ELSE /\ IF conversion_type \in TextOptions
                THEN /\ pdf_text' = << extracted_text >>
                     /\ pdf_source' =
                          << [by |-> "upload", option |-> conversion_type] >>
                ELSE UNCHANGED << pdf_text, pdf_source >>
             /\ pdf_chat_history' = ShowHistory(pdf_chat_history, TRUE)
    /\ pdf_run' = "processed"
    /\ UNCHANGED conversion_type
    /\ UNCHANGED notPdfVars

\* lines 323-333: a question is entered
AskQuestion ==
    /\ conversion_type = ChatWithPdf
    /\ \E user_input \in UserInputs, answer \in PdfAnswers :
        IF pdf_text = << >> \/ pdf_text = << "" >>
        THEN /\ pdf_run' = "info"
             /\ UNCHANGED pdf_chat_history
        ELSE IF pdf_chat_history = << >>
        THEN /\ pdf_run' = "AttributeError"
             /\ UNCHANGED pdf_chat_history
        ELSE /\ Len(pdf_chat_history[1]) + 2 <= MaxHistory
             /\ pdf_chat_history' =
                  << pdf_chat_history[1]
                     \o << Turn("user", user_input),
                            Turn("assistant", answer) >> >>
             /\ pdf_run' = "answered"
    /\ UNCHANGED << conversion_type, pdf_text, pdf_source >>
    /\ UNCHANGED notPdfVars

PdfNext == SelectOption \/ ProcessUrl \/ UploadPdf \/ AskQuestion

SpecPdf ==
    /\ PdfInit
    /\ [][PdfNext]_vars

\* pdf_text was set by "Process URL" with the radio on "Chat with PDF",
\* and holds text
LoadedByUrlForChat ==
    /\ pdf_source = << [by |-> "url", option |-> ChatWithPdf] >>
    /\ pdf_text # << "" >>

(***************************************************************************)
(* C29: in the mode "Chat with PDF", once a PDF has been processed by URL  *)
(* (pdf_text is set), the chat history exists, and a question entered on a *)
(* later run is answered: the user turn and the answer are appended and    *)
(* no error is raised.                                                     *)
(***************************************************************************)
C29_QuestionAfterUrlAnswered ==
    LoadedByUrlForChat =>
        /\ pdf_chat_history # << >>
        /\ pdf_run # "AttributeError"

(***************************************************************************)
(* The hub (main.py) and its LinkedIn page (linkedin_app_wrapper.run_app): *)
(* one action per button, the run the button causes and the run that       *)
(* st.rerun() starts after it.                                             *)
(***************************************************************************)
\* the most searches a session saves
MaxSaved == 2

Keywords == {"python developer", "nurse"}

\* main.py lines 22, 67, 73: the page a run shows
PageOf(m) ==
    CASE m = "menu" -> "menu"
      [] m = "general" -> "general"
      [] m = "linkedin" -> "linkedin"
      [] OTHER -> "blank"

HubInit ==
    /\ mode = "menu"
    /\ page = "menu"
    /\ pressed = "none"
    /\ query_params \in {{}, {"utm_source"}}
    /\ linkedin_configured = FALSE
    /\ search_results = "None"
    /\ selected_job = FALSE
    /\ saved_searches = << >>
    /\ max_depth = 0
    /\ seed = [netloc |-> "", path |-> ""]
    /\ visited = {}
    /\ stack = << >>
    /\ result = << >>
    /\ crawl_pc = "idle"
    /\ static_resp = << >>
    /\ soup_of = {}
    /\ soup_calls = << >>
    /\ links_of = << >>
    /\ anchors = 0
    /\ text = << >>
    /\ chunk_size = 0
    /\ final_chunks = << >>
    /\ chunk_pc = "idle"
    /\ query_embedding = << >>
    /\ vector_store = << >>
    /\ top_k = 0
    /\ retrieved = << >>
    /\ retr_pc = "idle"
    /\ query = ""
    /\ expanded_query = ""
    /\ expand_pc = "idle"
    /\ input_lines = << >>
    /\ url_list = << >>
    /\ futures = << >>
    /\ port_queue = << >>
    /\ results = << >>
    /\ domain_successes = << >>
    /\ domain_errors = << >>
    /\ main_pc = "idle"
    /\ robots_urls = << >>
    /\ site_idx = 0
    /\ leadership_paths = << >>
    /\ site_nodes = << >>
    /\ already_added_urls = {}
    /\ prioritized_urls = << >>
    /\ ai_analysis_text = 0
    /\ site_log = << >>
    /\ robots_pc = "idle"
    /\ crawled_text = FALSE
    /\ chat_history = << >>
    /\ messages = << >>
    /\ chat_pc = "idle"
    /\ web = << >>
    /\ web_depth = 0
    /\ web_tree = << >>
    /\ web_pc = "idle"
    /\ conversion_type = ""
    /\ pdf_text = << >>
    /\ pdf_chat_history = << >>
    /\ pdf_source = << >>
    /\ pdf_run = "idle"

\* main.py lines 47-49 and 67-72
LaunchGeneral ==
    /\ page = "menu"
    /\ mode' = "general"
    /\ page' = PageOf("general")
    /\ pressed' = "Launch General Scraper"
    /\ UNCHANGED << query_params, linkedin_configured, search_results,
                    selected_job, saved_searches >>
    /\ UNCHANGED notHubVars

\* main.py lines 63-65 and 73-78, linkedin_app_wrapper lines 22-29
LaunchLinkedIn ==
    /\ page = "menu"
    /\ mode' = "linkedin"
    /\ page' = PageOf("linkedin")
    /\ pressed' = "Launch LinkedIn Scraper"
    /\ UNCHANGED << query_params, linkedin_configured, search_results,
                    selected_job, saved_searches >>
    /\ UNCHANGED notHubVars

\* app_wrapper.run_app: a run of the general page, which has no button
\* that leaves it
UseGeneral ==
    /\ page = "general"
    /\ page' = PageOf(mode)
    /\ pressed' = "Start Scraping"
    /\ UNCHANGED << mode, query_params, linkedin_configured, search_results,
                    selected_job, saved_searches >>
    /\ UNCHANGED notHubVars

\* linkedin_app_wrapper lines 32-34: the query parameters are cleared and
\* the script is run again
ReturnToMenu ==
    /\ page = "linkedin"
    /\ query_params' = {}
    /\ page' = PageOf(mode)
    /\ pressed' = "Return to Menu"
    /\ UNCHANGED << mode, linkedin_configured, search_results, selected_job,
                    saved_searches >>
    /\ UNCHANGED notHubVars

\* lines 45-62
SaveCredentials ==
    /\ page = "linkedin"
    /\ ~linkedin_configured
    /\ \E all_filled \in BOOLEAN : linkedin_configured' = all_filled
    /\ page' = PageOf(mode)
    /\ pressed' = "Save Credentials"
    /\ UNCHANGED << mode, query_params, search_results, selected_job,
                    saved_searches >>
    /\ UNCHANGED notHubVars

\* lines 63-67
ResetCredentials ==
    /\ page = "linkedin"
    /\ linkedin_configured
    /\ linkedin_configured' = FALSE
    /\ page' = PageOf(mode)
    /\ pressed' = "Reset Credentials"
    /\ UNCHANGED << mode, query_params, search_results, selected_job,
                    saved_searches >>
    /\ UNCHANGED notHubVars

\* lines 70-151
SearchJobs ==
    /\ page = "linkedin"
    /\ linkedin_configured
    /\ Len(saved_searches) < MaxSaved
    /\ \E keywords \in Keywords, found \in {"failed", "none", "some"} :
        IF found = "failed"
        THEN UNCHANGED << search_results, saved_searches >>
        ELSE /\ search_results' = found
             /\ saved_searches' = Append(saved_searches, keywords)
    /\ page' = PageOf(mode)
    /\ pressed' = "Search Jobs"
    /\ UNCHANGED << mode, query_params, linkedin_configured, selected_job >>
    /\ UNCHANGED notHubVars

\* lines 201-209
ViewJobDetails ==
    /\ page = "linkedin"
    /\ linkedin_configured
    /\ search_results = "some"
    /\ \E success \in BOOLEAN :
        selected_job' = IF success THEN TRUE ELSE selected_job
    /\ page' = PageOf(mode)
    /\ pressed' = "View Job Details"
    /\ UNCHANGED << mode, query_params, linkedin_configured, search_results,
                    saved_searches >>
    /\ UNCHANGED notHubVars

HubNext ==
    \/ LaunchGeneral
    \/ LaunchLinkedIn
    \/ UseGeneral
    \/ ReturnToMenu
    \/ SaveCredentials
    \/ ResetCredentials
    \/ SearchJobs
    \/ ViewJobDetails

SpecHub ==
    /\ HubInit
    /\ [][HubNext]_vars

(***************************************************************************)
(* C30: "Return to Menu" pressed on the LinkedIn page leads to the menu:   *)
(* on the run that follows, the mode is menu again and the menu is shown.  *)
(***************************************************************************)
C30_ReturnLeadsToMenu ==
    pressed = "Return to Menu" => mode = "menu" /\ page = "menu"

====
